---- MODULE Spec2Model ----
(***************************************************************************)
(* SistemaVendas: the sale workflow (POST /vendas), the sale reversal      *)
(* (POST /vendas/:id/reverter) and the sale list (GET /vendas) over the    *)
(* PostgreSQL store reached through the shared pg connection pool.         *)
(*                                                                         *)
(* The store is modelled at READ COMMITTED: a committed database `db` and, *)
(* for every pool client, the writes of its open transaction (`tx`).  A    *)
(* client reads the committed rows overlaid with its own uncommitted ones; *)
(* a statement sent outside a transaction commits on its own; an UPDATE or *)
(* SELECT ... FOR UPDATE of a row written by another open transaction      *)
(* waits for that transaction to end.                                      *)
(*                                                                         *)
(* pool.query(text) runs one statement on a client the pool picks among    *)
(* its idle clients (a new client when none is idle) and gives the client  *)
(* back when the result arrives.  An await ends a step: a step of a        *)
(* handler is the arrival of the result of its statement in flight, the    *)
(* synchronous code up to the next await, and the dispatch of the next     *)
(* statement.                                                              *)
(*                                                                         *)
(* Money is counted in whole units; numeric(10,2) rounding is not          *)
(* modelled.                                                               *)
(***************************************************************************)
EXTENDS Integers, Sequences, FiniteSets, TLC

VARIABLES
    db,        \* committed rows: produtos, estoque, vendas, itens (itens_venda), clientes
    tx,        \* per pool client: its open transaction and that transaction's writes
    seqVenda,  \* vendas_id_seq (a sequence is never rolled back)
    seqItem,   \* itens_venda_id_seq
    seqProduto, \* produtos_id_seq
    seqCliente, \* clientes_id_seq
    idle,      \* the pool's idle clients
    criados,   \* how many clients the pool has created
    req,       \* the requests being served, one record per slot
    reg,       \* history: the latest requests, each with the committed rows it
               \* arrived on and its response (kept when reg.on)
    hist       \* history: the store at the start, the sales whose request ended
               \* with COMMIT (and the total it computed) or with ROLLBACK, and
               \* the responses of the reversals of each sale

vars == <<db, tx, seqVenda, seqItem, seqProduto, seqCliente, idle, criados, req, reg, hist>>

----------------------------------------------------------------------------
(* Bounds *)

NProd == 2
MaxEstoque == 2
MaxVendas == 2
MaxItens == 2
NReq == 2

(* the browsers that send requests, each with its session cookie *)
NSess == 2

Prods == 1..NProd
Reqs == 1..NReq
Conns == 1..NReq

Sids == 1..NSess

Vazio == <<>>

----------------------------------------------------------------------------
(* Values: an SQL NULL / a missing JSON field is <<>>, a present value v is <<v>> *)

Nulo == <<>>
Algum(v) == <<v>>
EhNulo(x) == x = <<>>
Valor(x) == x[1]

(* a || b on a nullable numeric column read through pg (a non-empty string
   such as "0.00" is truthy, so only NULL falls through) *)
Ou(a, b) == IF EhNulo(a) THEN b ELSE a

DigitChars == <<"0", "1", "2", "3", "4", "5", "6", "7", "8", "9">>
IsDigit(ch) == \E i \in DOMAIN DigitChars : DigitChars[i] = ch
DigitVal(ch) == (CHOOSE i \in DOMAIN DigitChars : DigitChars[i] = ch) - 1

RECURSIVE ParseDigits(_, _)
ParseDigits(s, acc) ==
    IF s = <<>> \/ ~IsDigit(Head(s)) THEN acc
    ELSE ParseDigits(Tail(s), acc * 10 + DigitVal(Head(s)))

(* parseInt of a string given as its characters: an optional sign, then the
   longest prefix of digits; NaN when there is no digit *)
parseInt(s) ==
    LET sinal == s # <<>> /\ Head(s) \in {"-", "+"}
        corpo == IF sinal THEN Tail(s) ELSE s
    IN  IF corpo = <<>> \/ ~IsDigit(Head(corpo)) THEN [nan |-> TRUE, n |-> 0]
        ELSE [nan |-> FALSE,
              n |-> IF Head(s) = "-" THEN 0 - ParseDigits(corpo, 0)
                    ELSE ParseDigits(corpo, 0)]

isNaN(v) == v.nan

RECURSIVE Digits(_)
Digits(n) ==
    IF n < 10 THEN <<DigitChars[n + 1]>>
    ELSE Append(Digits(n \div 10), DigitChars[(n % 10) + 1])

RECURSIVE PadStart(_, _, _)
PadStart(s, len, ch) == IF Len(s) >= len THEN s ELSE PadStart(<<ch>> \o s, len, ch)

SliceLast(s, k) == IF Len(s) <= k THEN s ELSE SubSeq(s, Len(s) - k + 1, Len(s))

BarcodeLen == 12

(* s.padStart(12, '0').slice(-12) of the string s = String(id) *)
formatBarcodeFromString(s) == SliceLast(PadStart(s, BarcodeLen, "0"), BarcodeLen)

(* formatBarcodeFromId of an id that is a number (the id an INSERT returns) *)
formatBarcodeFromId(id) == formatBarcodeFromString(Digits(id))

----------------------------------------------------------------------------
(* The store *)

TxVazia ==
    [aberta |-> FALSE, produtos |-> Vazio, estoque |-> Vazio, vendas |-> Vazio, itens |-> Vazio]

(* what client c reads: the committed rows under its own uncommitted writes *)
Visao(c, s) ==
    [produtos |-> s.tx[c].produtos @@ s.db.produtos,
     estoque  |-> s.tx[c].estoque @@ s.db.estoque,
     vendas   |-> s.tx[c].vendas @@ s.db.vendas,
     itens    |-> s.tx[c].itens @@ s.db.itens,
     clientes |-> s.db.clientes,
     usuarios |-> s.db.usuarios,
     session  |-> s.db.session]

(* a write of client c: into its open transaction, else committed on the spot *)
Escreve(c, s, tab, k, row) ==
    IF s.tx[c].aberta
    THEN [s EXCEPT !.tx[c][tab] = (k :> row) @@ @]
    ELSE [s EXCEPT !.db[tab] = (k :> row) @@ @]

(* a slip: the SELECT without FOR UPDATE and writes that never wait *)
SemBloqueio(c, s, tab, k) == FALSE

(* the committed row k is written (or locked FOR UPDATE) by another client's
   open transaction: a statement of c that updates or locks it waits *)
Bloqueada(c, s, tab, k) ==
    /\ k \in DOMAIN s.db[tab]
    /\ \E c2 \in Conns \ {c} : s.tx[c2].aberta /\ k \in DOMAIN s.tx[c2][tab]

(* BEGIN inside a transaction is a warning and changes nothing *)
Begin(c, s) == IF s.tx[c].aberta THEN s ELSE [s EXCEPT !.tx[c].aberta = TRUE]

(* COMMIT outside a transaction is a warning and changes nothing *)
Commit(c, s) ==
    [db |-> [s.db EXCEPT !.produtos = s.tx[c].produtos @@ @,
                         !.estoque = s.tx[c].estoque @@ @,
                         !.vendas = s.tx[c].vendas @@ @,
                         !.itens = s.tx[c].itens @@ @],
     tx |-> [s.tx EXCEPT ![c] = TxVazia]]

(* a slip: the catch sends COMMIT *)
RollbackComoCommit(c, s) == Commit(c, s)

Rollback(c, s) == [s EXCEPT !.tx[c] = TxVazia]

----------------------------------------------------------------------------
(* The statements of POST /vendas *)

(* INSERT INTO vendas (id_cliente, total) VALUES ($1, 0): status takes its default *)
InsertVenda(c, s, id, id_cliente) ==
    Escreve(c, s, "vendas", id,
            [id_cliente |-> id_cliente, total |-> 0, status |-> "CONCLUIDA"])

(* SELECT p.id, p.valor_venda, p.valor_unitario, e.quantidade AS estoque
   FROM produtos p LEFT JOIN estoque e ... WHERE p.barcode = $1 *)
SelectProduto(c, s, barcode) ==
    LET v == Visao(c, s)
    IN  {[id |-> p,
          valor_venda |-> v.produtos[p].valor_venda,
          valor_unitario |-> v.produtos[p].valor_unitario,
          estoque |-> IF p \in DOMAIN v.estoque THEN Algum(v.estoque[p]) ELSE Nulo] :
            p \in {x \in DOMAIN v.produtos : v.produtos[x].barcode = barcode}}

(* rows[0] *)
PrimeiraLinha(rows) == CHOOSE x \in rows : \A y \in rows : x.id <= y.id

(* !item.barcode || !item.quantidade *)
ItemIncompleto(item) == item.barcode = <<>> \/ item.quantidade = <<>>

(* isNaN(quantidade) || quantidade <= 0 *)
QuantidadeInvalida(q) == isNaN(q) \/ q.n <= 0

(* a slip: the stock is compared with one unit, not with the quantity *)
EstoqueZerado(estoque, quantidade) ==
    (IF EhNulo(estoque) THEN 0 ELSE Valor(estoque)) < 1

(* produto.estoque < quantidade, a NULL estoque comparing as 0 *)
EstoqueInsuficiente(estoque, quantidade) ==
    (IF EhNulo(estoque) THEN 0 ELSE Valor(estoque)) < quantidade

(* a slip: the unit cost is taken also when the product has a sale price *)
PrecoDeCusto(produto) == Valor(Ou(produto.valor_unitario, Algum(0)))

(* Number(produto.valor_venda || produto.valor_unitario || 0) *)
PrecoUnitario(produto) ==
    Valor(Ou(Ou(produto.valor_venda, produto.valor_unitario), Algum(0)))

(* const subtotal = quantidade * preco_unitario *)
Subtotal(quantidade, preco_unitario) == quantidade * preco_unitario

InsertItem(c, s, id, id_venda, id_produto, quantidade, preco_unitario) ==
    Escreve(c, s, "itens", id,
            [id_venda |-> id_venda, id_produto |-> id_produto,
             quantidade |-> quantidade, preco_unitario |-> preco_unitario])

(* a slip: the UPDATE takes one unit whatever the quantity *)
UpdateEstoqueUmaUnidade(c, s, id_produto, quantidade) ==
    LET v == Visao(c, s)
    IN  IF id_produto \in DOMAIN v.estoque
        THEN Escreve(c, s, "estoque", id_produto, v.estoque[id_produto] - 1)
        ELSE s

(* UPDATE estoque SET quantidade = quantidade - $1 WHERE id_produto = $2 *)
UpdateEstoqueVenda(c, s, id_produto, quantidade) ==
    LET v == Visao(c, s)
    IN  IF id_produto \in DOMAIN v.estoque
        THEN Escreve(c, s, "estoque", id_produto, v.estoque[id_produto] - quantidade)
        ELSE s

(* a slip: the total is never written *)
UpdateTotalEsquecido(c, s, id, total) == s

(* UPDATE vendas SET total = $1 WHERE id = $2 *)
UpdateTotal(c, s, id, total) ==
    LET v == Visao(c, s)
    IN  IF id \in DOMAIN v.vendas
        THEN Escreve(c, s, "vendas", id, [v.vendas[id] EXCEPT !.total = total])
        ELSE s

----------------------------------------------------------------------------
(* The statements of POST /vendas/:id/reverter *)

(* SELECT ... FROM vendas WHERE id = $1 FOR UPDATE: the row stays locked by
   the client's transaction *)
SelectVendaForUpdate(c, s, id) ==
    LET v == Visao(c, s)
    IN  IF id \in DOMAIN v.vendas THEN Escreve(c, s, "vendas", id, v.vendas[id]) ELSE s

(* a slip: the status is compared with a word the handler never writes *)
JaCanceladaExato(status) == status = "CANCELADO"

(* (venda.status || '').toUpperCase().startsWith('CANCEL') *)
JaCancelada(status) == status \in {"CANCELADA", "CANCELADO", "cancelada"}

RECURSIVE EmOrdem(_)
EmOrdem(S) ==
    IF S = {} THEN <<>>
    ELSE LET k == CHOOSE x \in S : \A y \in S : x <= y
         IN  <<k>> \o EmOrdem(S \ {k})

(* SELECT id_produto, quantidade FROM itens_venda WHERE id_venda = $1 *)
SelectItens(c, s, id) ==
    LET v == Visao(c, s)
        ks == EmOrdem({k \in DOMAIN v.itens : v.itens[k].id_venda = id})
    IN  [n \in DOMAIN ks |-> [id_produto |-> v.itens[ks[n]].id_produto,
                               quantidade |-> v.itens[ks[n]].quantidade]]

(* a slip: the UPDATE gives back one unit whatever the quantity *)
UpdateEstoqueReverterUmaUnidade(c, s, id_produto, quantidade) ==
    LET v == Visao(c, s)
    IN  IF id_produto \in DOMAIN v.estoque
        THEN Escreve(c, s, "estoque", id_produto, v.estoque[id_produto] + 1)
        ELSE s

(* UPDATE estoque SET quantidade = COALESCE(quantidade,0) + $1 WHERE id_produto = $2 *)
UpdateEstoqueReverter(c, s, id_produto, quantidade) ==
    LET v == Visao(c, s)
    IN  IF id_produto \in DOMAIN v.estoque
        THEN Escreve(c, s, "estoque", id_produto, v.estoque[id_produto] + quantidade)
        ELSE s

(* a slip: the UPDATE of the status clears the total as well *)
UpdateStatusETotal(c, s, id) ==
    LET v == Visao(c, s)
    IN  IF id \in DOMAIN v.vendas
        THEN Escreve(c, s, "vendas", id, [v.vendas[id] EXCEPT !.status = "CANCELADA", !.total = 0])
        ELSE s

(* UPDATE vendas SET status = 'CANCELADA' WHERE id = $1 *)
UpdateStatus(c, s, id) ==
    LET v == Visao(c, s)
    IN  IF id \in DOMAIN v.vendas
        THEN Escreve(c, s, "vendas", id, [v.vendas[id] EXCEPT !.status = "CANCELADA"])
        ELSE s

----------------------------------------------------------------------------
(* The pool *)

(* the clients a checkout may get: an idle one, or a new one when none is idle
   (the pool allows 10 clients, more than the requests served at a time) *)
Disponiveis == IF idle # {} THEN idle ELSE {criados + 1}

----------------------------------------------------------------------------
(* Requests *)

Livre ==
    [op |-> "livre", pc |-> "-", cli |-> 0, id_cliente |-> Nulo,
     item |-> Nulo, n |-> 0, id_venda |-> 0, total |-> 0, quantidade |-> 0,
     produto |-> 0, preco |-> 0, alvo |-> 0, venda |-> Nulo, pend |-> <<>>]

(* how many of the latest requests the history keeps *)
Memoria == 2

Registra(novo) ==
    IF reg.on
    THEN [reg EXCEPT !.ult = SubSeq(<<novo>> \o @, 1,
                                    IF Len(@) < Memoria THEN Len(@) + 1 ELSE Memoria)]
    ELSE reg

S == [db |-> db, tx |-> tx]

(* sale ids drawn so far, with those of the sale requests that will draw one *)
Reservadas ==
    seqVenda + Cardinality({r \in Reqs : req[r].op = "venda" /\ req[r].pc \in {"begin", "ins_venda"}})

(* a request arrives at slot r, the first free one, and its first statement is
   sent on client c *)
Chega(r, c, rq) ==
    /\ req[r].op = "livre"
    /\ \A r2 \in Reqs : r2 < r => req[r2].op # "livre"
    /\ c \in Disponiveis
    /\ idle' = idle \ {c}
    /\ criados' = IF c > criados THEN c ELSE criados
    /\ req' = [req EXCEPT ![r] = [rq EXCEPT !.cli = c]]
    /\ reg' = Registra([antes |-> db, op |-> rq.op, res |-> "-", id |-> rq.alvo,
                        lidos |-> 0, pedido |-> [p \in Prods |-> 0]])
    /\ UNCHANGED <<seqProduto, seqCliente, db, tx, seqVenda, seqItem, hist>>

(* the quantity an item asks of product p: the leading integer of its
   quantidade, when its barcode is that of p *)
PedidoDe(item, p) ==
    IF item.barcode = formatBarcodeFromId(p) /\ ~isNaN(parseInt(item.quantidade))
    THEN parseInt(item.quantidade).n ELSE 0

(* the history of the request in service: how much of each product the items
   its loop has read ask for *)
Leu(rq) ==
    IF reg.on /\ ~EhNulo(rq.item) /\ rq.n > reg.ult[1].lidos
    THEN [reg EXCEPT !.ult[1].lidos = rq.n,
                     !.ult[1].pedido = [p \in Prods |-> @[p] + PedidoDe(Valor(rq.item), p)]]
    ELSE reg

(* the result of r's pool.query arrives with the store now s1, the client goes
   back to the pool, and the handler's next pool.query goes to a client the
   pool picks *)
SegueNoPool(r, s1, rq) ==
    /\ db' = s1.db
    /\ tx' = s1.tx
    /\ \E c2 \in idle \cup {req[r].cli} :
          /\ idle' = (idle \cup {req[r].cli}) \ {c2}
          /\ req' = [req EXCEPT ![r] = [rq EXCEPT !.cli = c2]]
    /\ reg' = Leu(rq)
    /\ UNCHANGED criados

(* the result of r's client.query arrives and the next one goes to the same
   client (pool.connect) *)
SegueNoCliente(r, s1, rq) ==
    /\ db' = s1.db
    /\ tx' = s1.tx
    /\ req' = [req EXCEPT ![r] = rq]
    /\ UNCHANGED <<idle, criados, reg>>

(* the result of r's last statement arrives, the client goes back to the pool
   and the response is sent *)
Responde(r, s1, res) ==
    /\ db' = s1.db
    /\ tx' = s1.tx
    /\ idle' = idle \cup {req[r].cli}
    /\ req' = [req EXCEPT ![r] = Livre]
    /\ reg' = IF reg.on
              THEN [reg EXCEPT !.ult[1].res = res,
                               !.ult[1].id = IF req[r].op = "venda" THEN req[r].id_venda ELSE @]
              ELSE reg
    /\ UNCHANGED criados

----------------------------------------------------------------------------
(* POST /vendas.  The handler reads req.body.itens front to back and nothing
   else of it but whether it is empty, so the model draws each item when the
   loop reaches it: `mais` is a one-item sequence while the list goes on and
   <<>> at its end. *)

(* the head of the for loop: the checks of the next item up to its SELECT, or
   the UPDATE of the total after the last item *)
ProximoItem(rq, mais) ==
    IF mais = <<>> THEN [rq EXCEPT !.pc = "upd_total", !.item = Nulo]
    ELSE LET item == mais[1]
             q == parseInt(item.quantidade)
         IN  IF ItemIncompleto(item) \/ QuantidadeInvalida(q)
             THEN [rq EXCEPT !.pc = "rollback", !.item = Algum(item), !.n = @ + 1]
             ELSE [rq EXCEPT !.pc = "sel_prod", !.item = Algum(item), !.n = @ + 1,
                             !.quantidade = q.n]

(* what the list can hold after the rq.n items read: one more item of `itens`
   (at most MaxItens in all), or nothing more once it has one item *)
Resto(rq, itens) ==
    {<<it>> : it \in IF rq.n < MaxItens THEN itens ELSE {}}
        \cup (IF rq.n > 0 THEN {<<>>} ELSE {})

(* an empty item list throws before BEGIN and the catch sends ROLLBACK *)
VendaChega(r, id_cliente, vazia) ==
    /\ vazia \/ Reservadas < MaxVendas
    /\ \E c \in Disponiveis :
          Chega(r, c, [Livre EXCEPT !.op = "venda",
                                    !.pc = IF vazia THEN "rollback" ELSE "begin",
                                    !.id_cliente = id_cliente])

VendaBegin(r) ==
    /\ req[r].op = "venda" /\ req[r].pc = "begin"
    /\ SegueNoPool(r, Begin(req[r].cli, S), [req[r] EXCEPT !.pc = "ins_venda"])
    /\ UNCHANGED <<seqProduto, seqCliente, seqVenda, seqItem, hist>>

VendaInsertVenda(r, itens) ==
    /\ req[r].op = "venda" /\ req[r].pc = "ins_venda"
    /\ seqVenda' = seqVenda + 1
    /\ \E mais \in Resto(req[r], itens) :
          SegueNoPool(r, InsertVenda(req[r].cli, S, seqVenda + 1, req[r].id_cliente),
                      ProximoItem([req[r] EXCEPT !.id_venda = seqVenda + 1, !.total = 0], mais))
    /\ UNCHANGED <<seqProduto, seqCliente, seqItem, hist>>

VendaSelectProduto(r) ==
    /\ req[r].op = "venda" /\ req[r].pc = "sel_prod"
    /\ LET rows == SelectProduto(req[r].cli, S, Valor(req[r].item).barcode)
           produto == PrimeiraLinha(rows)
       IN  IF rows = {} \/ EstoqueInsuficiente(produto.estoque, req[r].quantidade)
           THEN SegueNoPool(r, S, [req[r] EXCEPT !.pc = "rollback"])
           ELSE SegueNoPool(r, S,
                    [req[r] EXCEPT !.pc = "ins_item",
                                   !.produto = produto.id,
                                   !.preco = PrecoUnitario(produto),
                                   !.total = @ + Subtotal(req[r].quantidade, PrecoUnitario(produto))])
    /\ UNCHANGED <<seqProduto, seqCliente, seqVenda, seqItem, hist>>

VendaInsertItem(r) ==
    /\ req[r].op = "venda" /\ req[r].pc = "ins_item"
    /\ seqItem' = seqItem + 1
    /\ SegueNoPool(r, InsertItem(req[r].cli, S, seqItem + 1, req[r].id_venda,
                                 req[r].produto, req[r].quantidade, req[r].preco),
                   [req[r] EXCEPT !.pc = "upd_estoque"])
    /\ UNCHANGED <<seqProduto, seqCliente, seqVenda, hist>>

VendaUpdateEstoque(r, itens) ==
    /\ req[r].op = "venda" /\ req[r].pc = "upd_estoque"
    /\ ~Bloqueada(req[r].cli, S, "estoque", req[r].produto)
    /\ \E mais \in Resto(req[r], itens) :
          SegueNoPool(r, UpdateEstoqueVenda(req[r].cli, S, req[r].produto, req[r].quantidade),
                      ProximoItem(req[r], mais))
    /\ UNCHANGED <<seqProduto, seqCliente, seqVenda, seqItem, hist>>

VendaUpdateTotal(r) ==
    /\ req[r].op = "venda" /\ req[r].pc = "upd_total"
    /\ ~Bloqueada(req[r].cli, S, "vendas", req[r].id_venda)
    /\ SegueNoPool(r, UpdateTotal(req[r].cli, S, req[r].id_venda, req[r].total),
                   [req[r] EXCEPT !.pc = "commit"])
    /\ UNCHANGED <<seqProduto, seqCliente, seqVenda, seqItem, hist>>

(* COMMIT, then res.redirect to the receipt *)
VendaCommit(r) ==
    /\ req[r].op = "venda" /\ req[r].pc = "commit"
    /\ Responde(r, Commit(req[r].cli, S), "ok")
    /\ hist' = [hist EXCEPT !.ok = @ \cup {req[r].id_venda},
                            !.total = (req[r].id_venda :> req[r].total) @@ @]
    /\ UNCHANGED <<seqProduto, seqCliente, seqVenda, seqItem>>

(* the catch: ROLLBACK, then res.redirect to /vendas with the error *)
VendaRollback(r) ==
    /\ req[r].op = "venda" /\ req[r].pc = "rollback"
    /\ Responde(r, Rollback(req[r].cli, S), "erro")
    /\ hist' = [hist EXCEPT !.erro = @ \cup ({req[r].id_venda} \ {0})]
    /\ UNCHANGED <<seqProduto, seqCliente, seqVenda, seqItem>>

----------------------------------------------------------------------------
(* GET /vendas: one SELECT over vendas *)

ListarChega(r) ==
    \E c \in Disponiveis : Chega(r, c, [Livre EXCEPT !.op = "listar", !.pc = "select"])

ListarResponde(r) ==
    /\ req[r].op = "listar" /\ req[r].pc = "select"
    /\ Responde(r, S, "ok")
    /\ UNCHANGED <<seqProduto, seqCliente, seqVenda, seqItem, hist>>

----------------------------------------------------------------------------
(* POST /vendas/:id/reverter: every statement on the client of pool.connect() *)

ReverterChega(r, id) ==
    \E c \in Disponiveis :
        Chega(r, c, [Livre EXCEPT !.op = "reverter", !.pc = "begin", !.alvo = id])

ReverterBegin(r) ==
    /\ req[r].op = "reverter" /\ req[r].pc = "begin"
    /\ SegueNoCliente(r, Begin(req[r].cli, S), [req[r] EXCEPT !.pc = "sel_venda"])
    /\ UNCHANGED <<seqProduto, seqCliente, seqVenda, seqItem, hist>>

ReverterSelectVenda(r) ==
    /\ req[r].op = "reverter" /\ req[r].pc = "sel_venda"
    /\ ~Bloqueada(req[r].cli, S, "vendas", req[r].alvo)
    /\ LET v == Visao(req[r].cli, S).vendas
           s1 == SelectVendaForUpdate(req[r].cli, S, req[r].alvo)
       IN  IF req[r].alvo \notin DOMAIN v
           THEN SegueNoCliente(r, s1, [req[r] EXCEPT !.pc = "rollback404"])
           ELSE IF JaCancelada(v[req[r].alvo].status)
           THEN SegueNoCliente(r, s1, [req[r] EXCEPT !.pc = "rollback400",
                                                     !.venda = Algum(v[req[r].alvo])])
           ELSE SegueNoCliente(r, s1, [req[r] EXCEPT !.pc = "sel_itens",
                                                     !.venda = Algum(v[req[r].alvo])])
    /\ UNCHANGED <<seqProduto, seqCliente, seqVenda, seqItem, hist>>

(* the head of the loop over itens.rows *)
ProximoEstorno(rq) ==
    IF rq.pend = <<>> THEN [rq EXCEPT !.pc = "upd_status"]
    ELSE [rq EXCEPT !.pc = "upd_estoque"]

ReverterSelectItens(r) ==
    /\ req[r].op = "reverter" /\ req[r].pc = "sel_itens"
    /\ SegueNoCliente(r, S,
           ProximoEstorno([req[r] EXCEPT !.pend = SelectItens(req[r].cli, S, req[r].alvo)]))
    /\ UNCHANGED <<seqProduto, seqCliente, seqVenda, seqItem, hist>>

ReverterUpdateEstoque(r) ==
    /\ req[r].op = "reverter" /\ req[r].pc = "upd_estoque"
    /\ ~Bloqueada(req[r].cli, S, "estoque", Head(req[r].pend).id_produto)
    /\ SegueNoCliente(r, UpdateEstoqueReverter(req[r].cli, S, Head(req[r].pend).id_produto,
                                               Head(req[r].pend).quantidade),
                      ProximoEstorno([req[r] EXCEPT !.pend = Tail(@)]))
    /\ UNCHANGED <<seqProduto, seqCliente, seqVenda, seqItem, hist>>

(* after the UPDATE of the status, the customer's name is read when the sale
   has a customer *)
ReverterUpdateStatus(r) ==
    /\ req[r].op = "reverter" /\ req[r].pc = "upd_status"
    /\ SegueNoCliente(r, UpdateStatus(req[r].cli, S, req[r].alvo),
           [req[r] EXCEPT !.pc = IF EhNulo(Valor(req[r].venda).id_cliente)
                                 THEN "commit" ELSE "sel_cliente"])
    /\ UNCHANGED <<seqProduto, seqCliente, seqVenda, seqItem, hist>>

ReverterSelectCliente(r) ==
    /\ req[r].op = "reverter" /\ req[r].pc = "sel_cliente"
    /\ SegueNoCliente(r, S, [req[r] EXCEPT !.pc = "commit"])
    /\ UNCHANGED <<seqProduto, seqCliente, seqVenda, seqItem, hist>>

(* COMMIT, res.json with status CANCELADA, client.release() *)
ReverterCommit(r) ==
    /\ req[r].op = "reverter" /\ req[r].pc = "commit"
    /\ Responde(r, Commit(req[r].cli, S), "ok")
    /\ hist' = [hist EXCEPT !.revOk[req[r].alvo] = @ + 1]
    /\ UNCHANGED <<seqProduto, seqCliente, seqVenda, seqItem>>

(* ROLLBACK, 404 (no such sale) or 400 (already cancelled), client.release() *)
ReverterRollback(r) ==
    /\ req[r].op = "reverter" /\ req[r].pc \in {"rollback404", "rollback400"}
    /\ Responde(r, Rollback(req[r].cli, S),
                IF req[r].pc = "rollback404" THEN "404" ELSE "400")
    /\ hist' = IF req[r].pc = "rollback404"
               THEN [hist EXCEPT !.rev404 = @ \cup {req[r].alvo}]
               ELSE [hist EXCEPT !.rev400 = @ \cup {req[r].alvo}]
    /\ UNCHANGED <<seqProduto, seqCliente, seqVenda, seqItem>>

----------------------------------------------------------------------------
(* Inputs *)

Barcodes == {formatBarcodeFromId(p) : p \in Prods} \cup {formatBarcodeFromId(NProd + 7)}

Item(b, q) == [barcode |-> b, quantidade |-> q]

(* concurrent requests: well-formed quantities *)
ItensSpec == {Item(b, <<"2">>) : b \in {formatBarcodeFromId(1), formatBarcodeFromId(NProd + 7)}}

(* requests served one at a time: every kind of quantity and barcode *)
ItensSerial ==
    {Item(b, q) : b \in Barcodes \cup {<<>>},
                  q \in {<<>>, <<"0">>, <<"1">>, <<"2">>, <<"-", "1">>, <<"x">>, <<"2", "x">>}}

VendaIds == 1..MaxVendas

----------------------------------------------------------------------------
(* Specifications *)

Catalogo(vv) ==
    [p \in Prods |-> [barcode |-> formatBarcodeFromId(p),
                      valor_unitario |-> Algum(p + 1),
                      valor_venda |-> vv[p],
                      etiquetas_impressas |-> FALSE]]

InitCom(vv, est, vs, its, on) ==
    /\ db = [produtos |-> Catalogo(vv), estoque |-> est, vendas |-> vs, itens |-> its,
             clientes |-> Vazio, usuarios |-> Vazio, usuarios_id_seq |-> 0,
             session |-> [sid \in Sids |-> Nulo]]
    /\ tx = [c \in Conns |-> TxVazia]
    /\ seqVenda = Cardinality(DOMAIN vs)
    /\ seqItem = Cardinality(DOMAIN its)
    /\ seqProduto = NProd
    /\ seqCliente = 0
    /\ idle = {}
    /\ criados = 0
    /\ req = [r \in Reqs |-> Livre]
    /\ reg = [on |-> on, ult |-> <<>>]
    /\ hist = [inicial |-> db, ok |-> DOMAIN vs, total |-> [id \in DOMAIN vs |-> vs[id].total],
               erro |-> {}, revOk |-> [id \in VendaIds |-> 0], rev400 |-> {}, rev404 |-> {}]

PrecosSpec == [p \in Prods |-> IF p = 1 THEN Nulo ELSE Algum(3)]

(* the server starts on a store with the products, their stock, and no sale *)
Init == InitCom(PrecosSpec, [p \in Prods |-> MaxEstoque], Vazio, Vazio, FALSE)

(* sales and sale lists overlap: each step is a step of one of the requests
   in service *)
Next ==
    \E r \in Reqs :
        \/ \E vazia \in BOOLEAN : VendaChega(r, Nulo, vazia)
        \/ VendaBegin(r)
        \/ VendaInsertVenda(r, ItensSpec)
        \/ VendaSelectProduto(r)
        \/ VendaInsertItem(r)
        \/ VendaUpdateEstoque(r, ItensSpec)
        \/ VendaUpdateTotal(r)
        \/ VendaCommit(r)
        \/ VendaRollback(r)
        \/ ListarChega(r)
        \/ ListarResponde(r)

Spec == Init /\ [][Next]_vars

(* requests are served one at a time: one arrives when none is in service *)
UmaPorVez == \A r \in Reqs : req[r].op = "livre"

InitSerial ==
    \E vv \in [Prods -> {Nulo, Algum(3)}] :
        InitCom(vv, [p \in Prods |-> MaxEstoque], Vazio, Vazio, TRUE)

NextSerial ==
    \E r \in Reqs :
        \/ \E vazia \in BOOLEAN : UmaPorVez /\ VendaChega(r, Nulo, vazia)
        \/ VendaBegin(r)
        \/ VendaInsertVenda(r, ItensSerial)
        \/ VendaSelectProduto(r)
        \/ VendaInsertItem(r)
        \/ VendaUpdateEstoque(r, ItensSerial)
        \/ VendaUpdateTotal(r)
        \/ VendaCommit(r)
        \/ VendaRollback(r)
        \/ \E id \in VendaIds : UmaPorVez /\ ReverterChega(r, id)
        \/ ReverterBegin(r)
        \/ ReverterSelectVenda(r)
        \/ ReverterSelectItens(r)
        \/ ReverterUpdateEstoque(r)
        \/ ReverterUpdateStatus(r)
        \/ ReverterCommit(r)
        \/ ReverterRollback(r)

SpecSerial == InitSerial /\ [][NextSerial]_vars

----------------------------------------------------------------------------
(* POST /produtos/editar/:id: BEGIN, UPDATE produtos, UPDATE estoque, COMMIT,
   each sent with pool.query *)

RECURSIVE SemZeros(_)
SemZeros(s) == IF Len(s) > 1 /\ Head(s) = "0" THEN SemZeros(Tail(s)) ELSE s

(* of two numbers written in digits without leading zeros, a is the larger *)
MaiorQue(a, b) ==
    \/ Len(a) > Len(b)
    \/ /\ Len(a) = Len(b)
       /\ \E i \in DOMAIN a :
             /\ DigitVal(a[i]) > DigitVal(b[i])
             /\ \A j \in 1..(i - 1) : a[j] = b[j]

(* the largest value of the type integer, 2^31 - 1 *)
Int4Max == <<"2", "1", "4", "7", "4", "8", "3", "6", "4", "7">>

(* PostgreSQL reading the text of a parameter as an integer: an optional sign
   and digits (the blanks it also skips are not drawn); anything else, or a
   value past the range of the type, is an error of the statement *)
pgInteger(s) ==
    LET sinal == s # <<>> /\ Head(s) \in {"-", "+"}
        corpo == IF sinal THEN Tail(s) ELSE s
    IN  IF corpo = <<>> \/ \E i \in DOMAIN corpo : ~IsDigit(corpo[i])
        THEN [erro |-> TRUE, n |-> 0]
        ELSE IF MaiorQue(SemZeros(corpo), Int4Max)
        THEN [erro |-> TRUE, n |-> 0]
        ELSE [erro |-> FALSE,
              n |-> IF Head(s) = "-" THEN 0 - ParseDigits(corpo, 0)
                    ELSE ParseDigits(corpo, 0)]

(* the digits parseInt reads: those before the first character that is no
   digit *)
RECURSIVE DigitosIniciais(_)
DigitosIniciais(s) ==
    IF s = <<>> \/ ~IsDigit(Head(s)) THEN <<>>
    ELSE <<Head(s)>> \o DigitosIniciais(Tail(s))

(* the absolute value of the smallest value of the type integer, 2^31 *)
Int4Min == <<"2", "1", "4", "7", "4", "8", "3", "6", "4", "8">>

(* parseInt(quantidade) is past the range of the column quantidade, and the
   statement that carries it throws *)
QuantidadeForaDoTipo(quantidade) ==
    LET sinal == quantidade # <<>> /\ Head(quantidade) \in {"-", "+"}
        corpo == IF sinal THEN Tail(quantidade) ELSE quantidade
    IN  MaiorQue(SemZeros(DigitosIniciais(corpo)),
                 IF sinal /\ Head(quantidade) = "-" THEN Int4Min ELSE Int4Max)

(* a slip: parseInt(quantidade) || 1 *)
QuantidadeOuUm(quantidade) ==
    IF isNaN(parseInt(quantidade)) THEN 1 ELSE parseInt(quantidade).n

(* parseInt(quantidade) || 0 (the blanks and the 0x that parseInt also reads
   are not drawn) *)
QuantidadeOuZero(quantidade) ==
    IF isNaN(parseInt(quantidade)) THEN 0 ELSE parseInt(quantidade).n

(* a slip: the price is kept by reference, the UPDATE carries it into the
   line items of the product *)
UpdateProdutoEItens(c, s, id, barcode, valor_unitario, valor_venda) ==
    LET novo == [s.db.produtos[id] EXCEPT !.barcode = barcode,
                                          !.valor_unitario = valor_unitario,
                                          !.valor_venda = valor_venda]
    IN  [s EXCEPT !.db.produtos[id] = novo,
                  !.db.itens = [k \in DOMAIN @ |->
                                  IF @[k].id_produto = id
                                  THEN [@[k] EXCEPT !.preco_unitario = Valor(Ou(valor_venda, valor_unitario))]
                                  ELSE @[k]]]

(* UPDATE produtos SET nome = $1, barcode = $2, valor_unitario = $3,
   valor_venda = $4, descricao = $5 WHERE id = $6 *)
UpdateProduto(c, s, id, barcode, valor_unitario, valor_venda) ==
    LET v == Visao(c, s)
    IN  IF id \in DOMAIN v.produtos
        THEN Escreve(c, s, "produtos", id,
                     [v.produtos[id] EXCEPT !.barcode = barcode,
                                            !.valor_unitario = valor_unitario,
                                            !.valor_venda = valor_venda])
        ELSE s

(* UPDATE estoque SET quantidade = $1 WHERE id_produto = $2 *)
UpdateEstoqueEditar(c, s, id, quantidade) ==
    LET v == Visao(c, s)
    IN  IF id \in DOMAIN v.estoque THEN Escreve(c, s, "estoque", id, quantidade) ELSE s

(* the form of a product: valor_unitario and valor_venda as NULL or a number,
   quantidade as the characters typed *)
Form(valor_unitario, valor_venda, quantidade) ==
    [valor_unitario |-> valor_unitario, valor_venda |-> valor_venda, quantidade |-> quantidade]

(* the locals of a product request: req.params.id and req.body *)
PedidoProduto(op, param, form) ==
    [Livre EXCEPT !.op = op, !.pc = "begin"] @@ [param |-> param, form |-> form]

EditarChega(r, param, form) ==
    \E c \in Disponiveis : Chega(r, c, PedidoProduto("editar", param, form))

EditarBegin(r) ==
    /\ req[r].op = "editar" /\ req[r].pc = "begin"
    /\ SegueNoPool(r, Begin(req[r].cli, S), [req[r] EXCEPT !.pc = "upd_produto"])
    /\ UNCHANGED <<seqProduto, seqCliente, seqVenda, seqItem, hist>>

(* the UPDATE of the product throws when the id is no integer or the
   valor_unitario is missing (NOT NULL) *)
EditarUpdateProduto(r) ==
    /\ req[r].op = "editar" /\ req[r].pc = "upd_produto"
    /\ LET id == pgInteger(req[r].param)
       IN  IF id.erro \/ EhNulo(req[r].form.valor_unitario)
           THEN SegueNoPool(r, S, [req[r] EXCEPT !.pc = "rollback"])
           ELSE /\ ~Bloqueada(req[r].cli, S, "produtos", id.n)
                /\ SegueNoPool(r, UpdateProduto(req[r].cli, S, id.n,
                                                formatBarcodeFromString(req[r].param),
                                                req[r].form.valor_unitario,
                                                req[r].form.valor_venda),
                               [req[r] EXCEPT !.pc = "upd_estoque", !.alvo = id.n])
    /\ UNCHANGED <<seqProduto, seqCliente, seqVenda, seqItem, hist>>

(* the UPDATE of the stock throws when the quantity is past the type
   integer *)
EditarUpdateEstoque(r) ==
    /\ req[r].op = "editar" /\ req[r].pc = "upd_estoque"
    /\ IF QuantidadeForaDoTipo(req[r].form.quantidade)
       THEN SegueNoPool(r, S, [req[r] EXCEPT !.pc = "rollback"])
       ELSE /\ ~Bloqueada(req[r].cli, S, "estoque", req[r].alvo)
            /\ SegueNoPool(r, UpdateEstoqueEditar(req[r].cli, S, req[r].alvo,
                                                  QuantidadeOuZero(req[r].form.quantidade)),
                           [req[r] EXCEPT !.pc = "commit"])
    /\ UNCHANGED <<seqProduto, seqCliente, seqVenda, seqItem, hist>>

EditarCommit(r) ==
    /\ req[r].op = "editar" /\ req[r].pc = "commit"
    /\ Responde(r, Commit(req[r].cli, S), "ok")
    /\ UNCHANGED <<seqProduto, seqCliente, seqVenda, seqItem, hist>>

EditarRollback(r) ==
    /\ req[r].op = "editar" /\ req[r].pc = "rollback"
    /\ Responde(r, Rollback(req[r].cli, S), "erro")
    /\ UNCHANGED <<seqProduto, seqCliente, seqVenda, seqItem, hist>>

----------------------------------------------------------------------------
(* Sales and product edits served one at a time *)

ItensPrecos == {Item(formatBarcodeFromId(p), <<"1">>) : p \in Prods}

FormsPrecos ==
    {Form(Algum(1), vv, <<"2">>) : vv \in {Nulo, Algum(0), Algum(3)}}
        \cup {Form(Nulo, Nulo, <<"2">>)}

(* the edits are of the first product, or of no product *)
ParamsPrecos == {Digits(1), <<"x">>}

InitPrecos == InitCom(PrecosSpec, [p \in Prods |-> MaxEstoque], Vazio, Vazio, TRUE)

NextPrecos ==
    \E r \in Reqs :
        \/ UmaPorVez /\ VendaChega(r, Nulo, FALSE)
        \/ VendaBegin(r)
        \/ VendaInsertVenda(r, ItensPrecos)
        \/ VendaSelectProduto(r)
        \/ VendaInsertItem(r)
        \/ VendaUpdateEstoque(r, ItensPrecos)
        \/ VendaUpdateTotal(r)
        \/ VendaCommit(r)
        \/ VendaRollback(r)
        \/ \E param \in ParamsPrecos, form \in FormsPrecos :
              UmaPorVez /\ EditarChega(r, param, form)
        \/ EditarBegin(r)
        \/ EditarUpdateProduto(r)
        \/ EditarUpdateEstoque(r)
        \/ EditarCommit(r)
        \/ EditarRollback(r)

SpecPrecos == InitPrecos /\ [][NextPrecos]_vars

----------------------------------------------------------------------------
(* Customers: POST /clientes, POST /clientes/novo, POST /clientes/editar/:id.
   A string is the sequence of its characters; every statement is sent with
   pool.query outside any transaction. *)

MaxClientes == 2

CpfLen == 11

(* s.replace(/[\.-]/g, '') *)
RECURSIVE SemPontuacao(_)
SemPontuacao(s) ==
    IF s = <<>> THEN <<>>
    ELSE IF Head(s) \in {".", "-"} THEN SemPontuacao(Tail(s))
    ELSE <<Head(s)>> \o SemPontuacao(Tail(s))

(* s.trim() *)
RECURSIVE Trim(_)
Trim(s) ==
    IF s = <<>> THEN s
    ELSE IF Head(s) = " " THEN Trim(Tail(s))
    ELSE IF s[Len(s)] = " " THEN Trim(SubSeq(s, 1, Len(s) - 1))
    ELSE s

(* a slip: the pattern is not anchored at its end, /^\d{11}/ *)
cleanAndValidateCPFSemFim(cpf) ==
    LET cleanedCPF == Trim(SemPontuacao(cpf))
    IN  IF Len(cleanedCPF) >= CpfLen /\ \A i \in 1..CpfLen : IsDigit(cleanedCPF[i])
        THEN [erro |-> FALSE, cpf |-> cleanedCPF]
        ELSE [erro |-> TRUE, cpf |-> <<>>]

(* cleanAndValidateCPF: (cpf || '') without '.' and '-', trimmed, must match
   /^\d{11}$/, else it throws *)
cleanAndValidateCPF(cpf) ==
    LET cleanedCPF == Trim(SemPontuacao(cpf))
    IN  IF Len(cleanedCPF) = CpfLen /\ \A i \in DOMAIN cleanedCPF : IsDigit(cleanedCPF[i])
        THEN [erro |-> FALSE, cpf |-> cleanedCPF]
        ELSE [erro |-> TRUE, cpf |-> <<>>]

(* SELECT id FROM clientes WHERE cpf = $1 *)
SelectCpf(c, s, cpf) ==
    {k \in DOMAIN Visao(c, s).clientes : Visao(c, s).clientes[k].cpf = cpf}

(* a slip: the customer's own row is not left out *)
SelectCpfDeTodos(c, s, cpf, id) == SelectCpf(c, s, cpf)

(* SELECT id FROM clientes WHERE cpf = $1 AND id != $2 *)
SelectCpfDeOutro(c, s, cpf, id) == SelectCpf(c, s, cpf) \ {id}

(* INSERT INTO clientes (nome, cpf, ...) VALUES ($1, $2, ...) *)
InsertCliente(c, s, id, nome, cpf) ==
    Escreve(c, s, "clientes", id, [nome |-> nome, cpf |-> cpf])

(* UPDATE clientes SET nome = $1, cpf = $2, ... WHERE id = $6 *)
UpdateCliente(c, s, id, nome, cpf) ==
    IF id \in DOMAIN Visao(c, s).clientes
    THEN Escreve(c, s, "clientes", id, [nome |-> nome, cpf |-> cpf])
    ELSE s

(* the locals of a customer request: the route, req.params.id, req.body *)
PedidoCliente(op, param, nome, cpf) ==
    [Livre EXCEPT !.op = op, !.pc = "sel_cpf"] @@ [param |-> param, nome |-> nome, cpf |-> cpf]

(* of the customer requests the history keeps the latest one *)
RegistraCliente(novo) == IF reg.on THEN [reg EXCEPT !.ult = <<novo>>] ELSE reg

(* what the history keeps of a customer request *)
RegistroCliente(rq, res) ==
    [antes |-> db, op |-> rq.op, res |-> res, id |-> 0,
     param |-> rq.param, nome |-> rq.nome, cpf |-> rq.cpf]

(* !nome, or cleanAndValidateCPF throws: the catch answers with the error
   and no statement is sent *)
ClienteInvalido(r, op, param, nome, cpf) ==
    /\ nome = <<>> \/ cleanAndValidateCPF(cpf).erro
    /\ req[r].op = "livre"
    /\ \A r2 \in Reqs : r2 < r => req[r2].op # "livre"
    /\ reg' = RegistraCliente(RegistroCliente(PedidoCliente(op, param, nome, cpf), "erro"))
    /\ UNCHANGED <<db, tx, seqVenda, seqItem, seqProduto, seqCliente, idle, criados, req, hist>>

(* the request passes the checks of name and CPF and its SELECT is sent *)
ClienteChega(r, op, param, nome, cpf) ==
    /\ nome # <<>> /\ ~cleanAndValidateCPF(cpf).erro
    /\ req[r].op = "livre"
    /\ \A r2 \in Reqs : r2 < r => req[r2].op # "livre"
    /\ \E c \in Disponiveis :
          /\ idle' = idle \ {c}
          /\ criados' = IF c > criados THEN c ELSE criados
          /\ req' = [req EXCEPT ![r] = [PedidoCliente(op, param, nome, cpf) EXCEPT !.cli = c]]
    /\ reg' = RegistraCliente(RegistroCliente(PedidoCliente(op, param, nome, cpf), "-"))
    /\ UNCHANGED <<db, tx, seqVenda, seqItem, seqProduto, seqCliente, hist>>

(* POST /clientes and POST /clientes/novo: the result of the SELECT arrives;
   a row with the CPF ends the request, else the INSERT is sent *)
CriarSelectCpf(r) ==
    /\ req[r].op \in {"clientes", "clientes_novo"} /\ req[r].pc = "sel_cpf"
    /\ IF SelectCpf(req[r].cli, S, cleanAndValidateCPF(req[r].cpf).cpf) # {}
       THEN Responde(r, S, "cpf")
       ELSE SegueNoPool(r, S, [req[r] EXCEPT !.pc = "insert"])
    /\ UNCHANGED <<seqVenda, seqItem, seqProduto, seqCliente, hist>>

CriarInsert(r) ==
    /\ req[r].op \in {"clientes", "clientes_novo"} /\ req[r].pc = "insert"
    /\ seqCliente' = seqCliente + 1
    /\ Responde(r, InsertCliente(req[r].cli, S, seqCliente + 1, req[r].nome,
                                 cleanAndValidateCPF(req[r].cpf).cpf), "ok")
    /\ UNCHANGED <<seqVenda, seqItem, seqProduto, hist>>

(* POST /clientes/editar/:id: the SELECT throws when the id is no integer *)
EditarClienteSelectCpf(r) ==
    /\ req[r].op = "clientes_editar" /\ req[r].pc = "sel_cpf"
    /\ LET id == pgInteger(req[r].param)
       IN  IF id.erro THEN Responde(r, S, "erro")
           ELSE IF SelectCpfDeOutro(req[r].cli, S, cleanAndValidateCPF(req[r].cpf).cpf, id.n) # {}
           THEN Responde(r, S, "cpf")
           ELSE SegueNoPool(r, S, [req[r] EXCEPT !.pc = "update", !.alvo = id.n])
    /\ UNCHANGED <<seqVenda, seqItem, seqProduto, seqCliente, hist>>

EditarClienteUpdate(r) ==
    /\ req[r].op = "clientes_editar" /\ req[r].pc = "update"
    /\ Responde(r, UpdateCliente(req[r].cli, S, req[r].alvo, req[r].nome,
                                 cleanAndValidateCPF(req[r].cpf).cpf), "ok")
    /\ UNCHANGED <<seqVenda, seqItem, seqProduto, seqCliente, hist>>

(* customer ids drawn so far, with those the requests in service may draw *)
ClientesReservados ==
    seqCliente + Cardinality({r \in Reqs : req[r].op \in {"clientes", "clientes_novo"}})

Rep(ch, n) == [i \in 1..n |-> ch]

(* 000.000.000-00 *)
Pontuado(s) ==
    SubSeq(s, 1, 3) \o <<".">> \o SubSeq(s, 4, 6) \o <<".">> \o SubSeq(s, 7, 9) \o <<"-">>
        \o SubSeq(s, 10, Len(s))

Nomes == {<<>>, <<"a">>, <<"b">>}

(* CPFs that pass: plain, punctuated, with blanks around *)
CpfsValidos ==
    {Rep("1", CpfLen), Pontuado(Rep("1", CpfLen)), <<" ">> \o Rep("1", CpfLen) \o <<" ", ".">>,
     Rep("2", CpfLen)}

(* CPFs that do not: missing or empty, short, long, with a letter, with a
   blank inside *)
CpfsInvalidos ==
    {<<>>, Rep("1", CpfLen - 1), Rep("1", CpfLen + 1), Rep("1", CpfLen - 1) \o <<"x">>,
     Rep("1", 3) \o <<" ">> \o Rep("1", CpfLen - 3)}

ParamsClientes == {Digits(k) : k \in 1..MaxClientes} \cup {<<"x">>}

(* customer requests served one at a time *)
InitClientesSerial == InitCom(PrecosSpec, [p \in Prods |-> MaxEstoque], Vazio, Vazio, TRUE)

NextClientesSerial ==
    \E r \in Reqs :
        \/ \E op \in {"clientes", "clientes_novo"}, nome \in Nomes,
              cpf \in CpfsValidos \cup CpfsInvalidos :
              /\ UmaPorVez
              /\ ClientesReservados < MaxClientes
              /\ \/ ClienteInvalido(r, op, <<>>, nome, cpf)
                 \/ ClienteChega(r, op, <<>>, nome, cpf)
        \/ \E param \in ParamsClientes, nome \in Nomes, cpf \in CpfsValidos \cup CpfsInvalidos :
              /\ UmaPorVez
              /\ \/ ClienteInvalido(r, "clientes_editar", param, nome, cpf)
                 \/ ClienteChega(r, "clientes_editar", param, nome, cpf)
        \/ CriarSelectCpf(r)
        \/ CriarInsert(r)
        \/ EditarClienteSelectCpf(r)
        \/ EditarClienteUpdate(r)

SpecClientesSerial == InitClientesSerial /\ [][NextClientesSerial]_vars

(* customer requests that overlap *)
InitClientes == InitCom(PrecosSpec, [p \in Prods |-> MaxEstoque], Vazio, Vazio, FALSE)

NextClientes ==
    \E r \in Reqs :
        \/ \E op \in {"clientes", "clientes_novo"}, cpf \in CpfsValidos :
              /\ ClientesReservados < MaxClientes
              /\ ClienteChega(r, op, <<>>, <<"a">>, cpf)
        \/ \E param \in ParamsClientes, cpf \in CpfsValidos :
              ClienteChega(r, "clientes_editar", param, <<"b">>, cpf)
        \/ CriarSelectCpf(r)
        \/ CriarInsert(r)
        \/ EditarClienteSelectCpf(r)
        \/ EditarClienteUpdate(r)

SpecClientes == InitClientes /\ [][NextClientes]_vars

----------------------------------------------------------------------------
(* Reversals that overlap, on a store that already holds committed sales *)

(* item j of sale id: j units of a product, at 3 each *)
ItensPrevios(n) ==
    [k \in 1..(n * MaxItens) |->
        LET id == ((k - 1) \div MaxItens) + 1
            j == ((k - 1) % MaxItens) + 1
        IN  [id_venda |-> id, id_produto |-> ((id + j) % NProd) + 1,
             quantidade |-> j, preco_unitario |-> 3]]

VendasPrevias(n, id_cliente, canceladas) ==
    [id \in 1..n |->
        [id_cliente |-> id_cliente,
         total |-> 3 * ((MaxItens * (MaxItens + 1)) \div 2),
         status |-> IF id \in canceladas THEN "CANCELADA" ELSE "CONCLUIDA"]]

InitReverter ==
    \E n \in 1..MaxVendas, id_cliente \in {Nulo, Algum(1)}, canceladas \in {{}, {1}} :
        InitCom(PrecosSpec, [p \in Prods |-> 0],
                VendasPrevias(n, id_cliente, canceladas), ItensPrevios(n), FALSE)

NextReverter ==
    \E r \in Reqs :
        \/ \E id \in VendaIds : ReverterChega(r, id)
        \/ ReverterBegin(r)
        \/ ReverterSelectVenda(r)
        \/ ReverterSelectItens(r)
        \/ ReverterUpdateEstoque(r)
        \/ ReverterUpdateStatus(r)
        \/ ReverterSelectCliente(r)
        \/ ReverterCommit(r)
        \/ ReverterRollback(r)

SpecReverter == InitReverter /\ [][NextReverter]_vars

----------------------------------------------------------------------------
(* POST /produtos, POST /produtos/deletar/:id and
   POST /produtos/toggle-impresso/:id *)

(* INSERT INTO produtos (nome, barcode, valor_unitario, valor_venda, descricao)
   VALUES ($1, NULL, $3, $4, $5): the NULL barcode is <<>>, and
   etiquetas_impressas takes its default *)
InsertProduto(c, s, id, valor_unitario, valor_venda) ==
    Escreve(c, s, "produtos", id,
            [barcode |-> Nulo, valor_unitario |-> valor_unitario,
             valor_venda |-> valor_venda, etiquetas_impressas |-> FALSE])

(* UPDATE produtos SET barcode = $1 WHERE id = $2 *)
UpdateBarcode(c, s, id, barcode) ==
    LET v == Visao(c, s)
    IN  IF id \in DOMAIN v.produtos
        THEN Escreve(c, s, "produtos", id, [v.produtos[id] EXCEPT !.barcode = barcode])
        ELSE s

(* INSERT INTO estoque (id_produto, quantidade) VALUES ($1, $2) *)
InsertEstoque(c, s, id_produto, quantidade) ==
    Escreve(c, s, "estoque", id_produto, quantidade)

(* DELETE FROM produtos WHERE id = $1, sent outside a transaction: the only
   statement of the handler, and no table refers to produtos *)
DeleteProduto(c, s, id) ==
    [s EXCEPT !.db.produtos = [p \in DOMAIN @ \ {id} |-> @[p]]]

(* UPDATE produtos SET etiquetas_impressas = $1 WHERE id = $2 *)
UpdateImpresso(c, s, id, novoStatus) ==
    LET v == Visao(c, s)
    IN  IF id \in DOMAIN v.produtos
        THEN Escreve(c, s, "produtos", id,
                     [v.produtos[id] EXCEPT !.etiquetas_impressas = novoStatus])
        ELSE s

CriarProdutoChega(r, form) ==
    \E c \in Disponiveis : Chega(r, c, PedidoProduto("criar", <<>>, form))

CriarProdutoBegin(r) ==
    /\ req[r].op = "criar" /\ req[r].pc = "begin"
    /\ SegueNoPool(r, Begin(req[r].cli, S), [req[r] EXCEPT !.pc = "ins_produto"])
    /\ UNCHANGED <<seqProduto, seqCliente, seqVenda, seqItem, hist>>

(* the INSERT draws the id from the sequence, and throws when the
   valor_unitario is missing (NOT NULL) *)
CriarProdutoInsert(r) ==
    /\ req[r].op = "criar" /\ req[r].pc = "ins_produto"
    /\ seqProduto' = seqProduto + 1
    /\ IF EhNulo(req[r].form.valor_unitario)
       THEN SegueNoPool(r, S, [req[r] EXCEPT !.pc = "rollback"])
       ELSE SegueNoPool(r, InsertProduto(req[r].cli, S, seqProduto + 1,
                                         req[r].form.valor_unitario,
                                         req[r].form.valor_venda),
                        [req[r] EXCEPT !.pc = "upd_barcode", !.alvo = seqProduto + 1])
    /\ UNCHANGED <<seqCliente, seqVenda, seqItem, hist>>

CriarProdutoUpdateBarcode(r) ==
    /\ req[r].op = "criar" /\ req[r].pc = "upd_barcode"
    /\ ~Bloqueada(req[r].cli, S, "produtos", req[r].alvo)
    /\ SegueNoPool(r, UpdateBarcode(req[r].cli, S, req[r].alvo,
                                    formatBarcodeFromId(req[r].alvo)),
                   [req[r] EXCEPT !.pc = "ins_estoque"])
    /\ UNCHANGED <<seqProduto, seqCliente, seqVenda, seqItem, hist>>

(* the INSERT of the stock throws when the quantity is past the type
   integer *)
CriarProdutoInsertEstoque(r) ==
    /\ req[r].op = "criar" /\ req[r].pc = "ins_estoque"
    /\ IF QuantidadeForaDoTipo(req[r].form.quantidade)
       THEN SegueNoPool(r, S, [req[r] EXCEPT !.pc = "rollback"])
       ELSE SegueNoPool(r, InsertEstoque(req[r].cli, S, req[r].alvo,
                                        QuantidadeOuZero(req[r].form.quantidade)),
                        [req[r] EXCEPT !.pc = "commit"])
    /\ UNCHANGED <<seqProduto, seqCliente, seqVenda, seqItem, hist>>

CriarProdutoCommit(r) ==
    /\ req[r].op = "criar" /\ req[r].pc = "commit"
    /\ Responde(r, Commit(req[r].cli, S), "ok")
    /\ UNCHANGED <<seqProduto, seqCliente, seqVenda, seqItem, hist>>

CriarProdutoRollback(r) ==
    /\ req[r].op = "criar" /\ req[r].pc = "rollback"
    /\ Responde(r, Rollback(req[r].cli, S), "erro")
    /\ UNCHANGED <<seqProduto, seqCliente, seqVenda, seqItem, hist>>

(* requireAuth: next() when req.session holds a usuario *)
requireAuth(sessao) == sessao

(* the locals of a request of a route that takes an id: whether the request
   comes with a session, and req.params.id *)
PedidoRota(op, pc, sessao, param) ==
    [Livre EXCEPT !.op = op, !.pc = pc]
        @@ [sessao |-> sessao, param |-> param, novoStatus |-> FALSE]

(* res.redirect('/login?next=...') of requireAuth: the handler never runs *)
Redireciona(r, op) ==
    /\ req[r].op = "livre"
    /\ \A r2 \in Reqs : r2 < r => req[r2].op # "livre"
    /\ reg' = Registra([antes |-> db, op |-> op, res |-> "login", id |-> 0,
                        lidos |-> 0, pedido |-> [p \in Prods |-> 0]])
    /\ UNCHANGED <<db, tx, seqVenda, seqItem, seqProduto, seqCliente, idle, criados, req, hist>>

(* app.post('/produtos/deletar/:id', requireAuth, ...) *)
DeletarChega(r, sessao, param) ==
    IF requireAuth(sessao)
    THEN \E c \in Disponiveis : Chega(r, c, PedidoRota("deletar", "delete", sessao, param))
    ELSE Redireciona(r, "deletar")

(* the DELETE throws when the id is no integer *)
DeletarResponde(r) ==
    /\ req[r].op = "deletar" /\ req[r].pc = "delete"
    /\ LET id == pgInteger(req[r].param)
       IN  IF id.erro THEN Responde(r, S, "erro")
           ELSE /\ ~Bloqueada(req[r].cli, S, "produtos", id.n)
                /\ Responde(r, DeleteProduto(req[r].cli, S, id.n), "ok")
    /\ UNCHANGED <<seqProduto, seqCliente, seqVenda, seqItem, hist>>

(* app.post('/produtos/toggle-impresso/:id', async ...): the route names no
   middleware *)
ToggleChega(r, sessao, param) ==
    \E c \in Disponiveis : Chega(r, c, PedidoRota("toggle", "select", sessao, param))

(* SELECT etiquetas_impressas FROM produtos WHERE id = $1: 404 when there is
   no row, else the UPDATE with the flag inverted is sent *)
ToggleSelect(r) ==
    /\ req[r].op = "toggle" /\ req[r].pc = "select"
    /\ LET id == pgInteger(req[r].param)
           v == Visao(req[r].cli, S)
       IN  IF id.erro THEN Responde(r, S, "erro")
           ELSE IF id.n \notin DOMAIN v.produtos THEN Responde(r, S, "404")
           ELSE SegueNoPool(r, S, [req[r] EXCEPT !.pc = "update", !.alvo = id.n,
                                                 !.novoStatus = ~v.produtos[id.n].etiquetas_impressas])
    /\ UNCHANGED <<seqProduto, seqCliente, seqVenda, seqItem, hist>>

ToggleUpdate(r) ==
    /\ req[r].op = "toggle" /\ req[r].pc = "update"
    /\ ~Bloqueada(req[r].cli, S, "produtos", req[r].alvo)
    /\ Responde(r, UpdateImpresso(req[r].cli, S, req[r].alvo, req[r].novoStatus), "ok")
    /\ UNCHANGED <<seqProduto, seqCliente, seqVenda, seqItem, hist>>

----------------------------------------------------------------------------
(* POST /carga-produtos: the rows of the first sheet, each in a transaction
   of its own sent with pool.query *)

(* a row of the sheet: the cells 0 (description), 1 (quantity), 4 (unit cost)
   and 5 (sale price).  A description or quantity cell is its characters,
   <<>> when the cell is empty; a price cell is NULL when empty, else a
   number *)
Linha(descricao, quantidade, valorUnitario, valorVenda) ==
    [descricao |-> descricao, quantidade |-> quantidade,
     valorUnitario |-> valorUnitario, valorVenda |-> valorVenda]

Maiuscula == [t |-> "T", o |-> "O", a |-> "A", l |-> "L"]

(* toUpperCase over the letters the descriptions are written with *)
toUpperCase(s) ==
    [i \in DOMAIN s |-> IF s[i] \in DOMAIN Maiuscula THEN Maiuscula[s[i]] ELSE s[i]]

(* !row[0] || row[0].toString().toUpperCase() === 'TOTAL' *)
SemDescricao(row) ==
    row.descricao = <<>> \/ toUpperCase(row.descricao) = <<"T", "O", "T", "A", "L">>

(* Number(row[1]) of a quantity cell.  The cells drawn hold a whole number
   written in digits with an optional minus, text that is no number, or
   nothing; the number is kept in digits, so Math.floor leaves it as it is *)
Number(cell) ==
    LET menos == cell # <<>> /\ Head(cell) = "-"
        corpo == IF menos THEN Tail(cell) ELSE cell
    IN  IF corpo = <<>> \/ \E i \in DOMAIN corpo : ~IsDigit(corpo[i])
        THEN [nan |-> TRUE, negativo |-> FALSE, digitos |-> <<>>]
        ELSE [nan |-> FALSE, negativo |-> menos /\ SemZeros(corpo) # <<"0">>,
              digitos |-> SemZeros(corpo)]

(* isNaN(quantidade) || quantidade < 0 *)
QuantidadeIgnorada(row) ==
    isNaN(Number(row.quantidade)) \/ Number(row.quantidade).negativo

(* the for loop from row i on: the first row that no continue skips, or
   Len(data) + 1 when the loop ends *)
RECURSIVE ProximaLinha(_, _)
ProximaLinha(data, i) ==
    IF i > Len(data) THEN i
    ELSE IF SemDescricao(data[i]) \/ QuantidadeIgnorada(data[i])
    THEN ProximaLinha(data, i + 1)
    ELSE i

(* Number(cell) || alt of a price cell *)
NumberOu(cell, alt) == IF EhNulo(cell) \/ Valor(cell) = 0 THEN alt ELSE Valor(cell)

valorUnitario(row) == NumberOu(row.valorUnitario, 0)

valorVenda(row) == NumberOu(row.valorVenda, valorUnitario(row))

(* numeric(10,2) holds values below 10^8 *)
NumericLimite == 100000000

(* the locals of the import: data, and the index i of the row in hand, the
   header being row 1 *)
PedidoCarga(data) ==
    [Livre EXCEPT !.op = "carga", !.pc = "begin"]
        @@ [data |-> data, i |-> ProximaLinha(data, 2)]

(* of the imports the history keeps the latest one *)
RegistraCarga(novo) == IF reg.on THEN [reg EXCEPT !.ult = <<novo>>] ELSE reg

(* what the history keeps of an import: the store and the sequence before it,
   the sheet, and the response with the row whose write failed *)
RegistroCarga(data, cod) ==
    [antes |-> db, seq |-> seqProduto, op |-> "carga", id |-> 0, data |-> data,
     res |-> [cod |-> cod, k |-> 0]]

(* no row of the sheet passes the checks: the redirect, and no statement *)
CargaVazia(r, data) ==
    /\ ProximaLinha(data, 2) > Len(data)
    /\ req[r].op = "livre"
    /\ \A r2 \in Reqs : r2 < r => req[r2].op # "livre"
    /\ reg' = RegistraCarga(RegistroCarga(data, "ok"))
    /\ UNCHANGED <<db, tx, seqVenda, seqItem, seqProduto, seqCliente, idle, criados, req, hist>>

(* the loop reaches its first row and the BEGIN is sent *)
CargaChega(r, data) ==
    /\ ProximaLinha(data, 2) <= Len(data)
    /\ req[r].op = "livre"
    /\ \A r2 \in Reqs : r2 < r => req[r2].op # "livre"
    /\ \E c \in Disponiveis :
          /\ idle' = idle \ {c}
          /\ criados' = IF c > criados THEN c ELSE criados
          /\ req' = [req EXCEPT ![r] = [PedidoCarga(data) EXCEPT !.cli = c]]
    /\ reg' = RegistraCarga(RegistroCarga(data, "-"))
    /\ UNCHANGED <<db, tx, seqVenda, seqItem, seqProduto, seqCliente, hist>>

CargaBegin(r) ==
    /\ req[r].op = "carga" /\ req[r].pc = "begin"
    /\ SegueNoPool(r, Begin(req[r].cli, S), [req[r] EXCEPT !.pc = "ins_produto"])
    /\ UNCHANGED <<seqProduto, seqCliente, seqVenda, seqItem, hist>>

(* the INSERT draws the id from the sequence, and throws when a price does
   not fit the column *)
CargaInsertProduto(r) ==
    /\ req[r].op = "carga" /\ req[r].pc = "ins_produto"
    /\ seqProduto' = seqProduto + 1
    /\ LET row == req[r].data[req[r].i]
       IN  IF valorUnitario(row) >= NumericLimite \/ valorVenda(row) >= NumericLimite
           THEN SegueNoPool(r, S, [req[r] EXCEPT !.pc = "rollback"])
           ELSE SegueNoPool(r, InsertProduto(req[r].cli, S, seqProduto + 1,
                                             Algum(valorUnitario(row)),
                                             Algum(valorVenda(row))),
                            [req[r] EXCEPT !.pc = "upd_barcode", !.alvo = seqProduto + 1])
    /\ UNCHANGED <<seqCliente, seqVenda, seqItem, hist>>

CargaUpdateBarcode(r) ==
    /\ req[r].op = "carga" /\ req[r].pc = "upd_barcode"
    /\ ~Bloqueada(req[r].cli, S, "produtos", req[r].alvo)
    /\ SegueNoPool(r, UpdateBarcode(req[r].cli, S, req[r].alvo,
                                    formatBarcodeFromId(req[r].alvo)),
                   [req[r] EXCEPT !.pc = "ins_estoque"])
    /\ UNCHANGED <<seqProduto, seqCliente, seqVenda, seqItem, hist>>

(* the INSERT of the stock row throws when Math.floor(quantidade) does not
   fit the type integer *)
CargaInsertEstoque(r) ==
    /\ req[r].op = "carga" /\ req[r].pc = "ins_estoque"
    /\ LET quantidade == pgInteger(Number(req[r].data[req[r].i].quantidade).digitos)
       IN  IF quantidade.erro
           THEN SegueNoPool(r, S, [req[r] EXCEPT !.pc = "rollback"])
           ELSE SegueNoPool(r, InsertEstoque(req[r].cli, S, req[r].alvo, quantidade.n),
                            [req[r] EXCEPT !.pc = "commit"])
    /\ UNCHANGED <<seqProduto, seqCliente, seqVenda, seqItem, hist>>

(* COMMIT, then the loop goes on: the BEGIN of the next row, or the redirect
   when no row is left *)
CargaCommit(r) ==
    /\ req[r].op = "carga" /\ req[r].pc = "commit"
    /\ LET j == ProximaLinha(req[r].data, req[r].i + 1)
       IN  IF j > Len(req[r].data)
           THEN Responde(r, Commit(req[r].cli, S), [cod |-> "ok", k |-> 0])
           ELSE SegueNoPool(r, Commit(req[r].cli, S), [req[r] EXCEPT !.pc = "begin", !.i = j])
    /\ UNCHANGED <<seqProduto, seqCliente, seqVenda, seqItem, hist>>

(* the catch around the loop: ROLLBACK and the 500, the rows left unread *)
CargaRollback(r) ==
    /\ req[r].op = "carga" /\ req[r].pc = "rollback"
    /\ Responde(r, Rollback(req[r].cli, S), [cod |-> "erro", k |-> req[r].i])
    /\ UNCHANGED <<seqProduto, seqCliente, seqVenda, seqItem, hist>>

----------------------------------------------------------------------------
(* Product requests served one at a time: create, edit, delete and import,
   all with a session *)

(* how many ids the requests may draw from the sequence of produtos *)
MaxNovos == 3

(* the rows of the sheet a request would draw an id for *)
Sorteios(data) ==
    Cardinality({j \in 2..Len(data) : ~SemDescricao(data[j]) /\ ~QuantidadeIgnorada(data[j])})

FormsProdutos ==
    {Form(Algum(1), Nulo, <<"2">>), Form(Algum(1), Algum(3), <<"x">>), Form(Nulo, Nulo, <<"2">>)}

(* the id of a product as the pages write it, the same id with a sign, an id
   of no product, and text that is no id *)
ParamsProdutos == {Digits(1), <<"+", "1">>, Digits(NProd + MaxNovos + 1), <<"x">>}

(* a header that reads as a row, a row that is imported, and a row whose
   quantity is past the type integer *)
Cabecalho == Linha(<<"a">>, <<"1">>, Algum(1), Nulo)

LinhaBoa == Linha(<<"a">>, <<"1">>, Algum(1), Nulo)

LinhaGrande == Linha(<<"a">>, <<"3", "0", "0", "0", "0", "0", "0", "0", "0", "0">>, Algum(1), Algum(3))

PlanilhasProdutos == {<<Cabecalho, LinhaBoa>>, <<Cabecalho, LinhaGrande>>}

InitProdutos == InitCom(PrecosSpec, [p \in Prods |-> MaxEstoque], Vazio, Vazio, FALSE)

NextProdutos ==
    \E r \in Reqs :
        \/ \E form \in FormsProdutos :
              /\ UmaPorVez
              /\ seqProduto < NProd + MaxNovos
              /\ CriarProdutoChega(r, form)
        \/ CriarProdutoBegin(r)
        \/ CriarProdutoInsert(r)
        \/ CriarProdutoUpdateBarcode(r)
        \/ CriarProdutoInsertEstoque(r)
        \/ CriarProdutoCommit(r)
        \/ CriarProdutoRollback(r)
        \/ \E param \in ParamsProdutos, form \in FormsProdutos :
              UmaPorVez /\ EditarChega(r, param, form)
        \/ EditarBegin(r)
        \/ EditarUpdateProduto(r)
        \/ EditarUpdateEstoque(r)
        \/ EditarCommit(r)
        \/ EditarRollback(r)
        \/ \E param \in ParamsProdutos : UmaPorVez /\ DeletarChega(r, TRUE, param)
        \/ DeletarResponde(r)
        \/ \E data \in PlanilhasProdutos :
              /\ UmaPorVez
              /\ seqProduto + Sorteios(data) <= NProd + MaxNovos
              /\ CargaChega(r, data)
        \/ CargaBegin(r)
        \/ CargaInsertProduto(r)
        \/ CargaUpdateBarcode(r)
        \/ CargaInsertEstoque(r)
        \/ CargaCommit(r)
        \/ CargaRollback(r)

SpecProdutos == InitProdutos /\ [][NextProdutos]_vars

----------------------------------------------------------------------------
(* Imports served one at a time *)

(* how many rows a sheet holds under its header *)
MaxLinhas == 3

(* a row whose unit cost does not fit the column, a row labelled total, a
   row whose quantity is no number and one whose quantity is negative *)
LinhaCara == Linha(<<"a">>, <<"1">>, Algum(NumericLimite), Nulo)

LinhaTotal == Linha(<<"t", "o", "t", "a", "l">>, <<"1">>, Algum(1), Nulo)

LinhaSemQuantidade == Linha(<<"a">>, <<"2", "x">>, Algum(1), Nulo)

LinhaNegativa == Linha(<<"a">>, <<"-", "1">>, Nulo, Algum(3))

LinhasCarga == {LinhaBoa, LinhaGrande, LinhaCara, LinhaTotal, LinhaSemQuantidade, LinhaNegativa}

PlanilhasCarga ==
    {<<Cabecalho>> \o linhas : linhas \in UNION {[1..n -> LinhasCarga] : n \in 0..MaxLinhas}}

InitCarga == InitCom(PrecosSpec, [p \in Prods |-> MaxEstoque], Vazio, Vazio, TRUE)

NextCarga ==
    \E r \in Reqs :
        \/ \E data \in PlanilhasCarga : UmaPorVez /\ CargaVazia(r, data)
        \/ \E data \in PlanilhasCarga :
              /\ UmaPorVez
              /\ seqProduto + Sorteios(data) <= NProd + MaxNovos
              /\ CargaChega(r, data)
        \/ CargaBegin(r)
        \/ CargaInsertProduto(r)
        \/ CargaUpdateBarcode(r)
        \/ CargaInsertEstoque(r)
        \/ CargaCommit(r)
        \/ CargaRollback(r)

SpecCarga == InitCarga /\ [][NextCarga]_vars

----------------------------------------------------------------------------
(* Requests with and without a session, served one at a time: the delete of a
   product, behind requireAuth, and the toggle of the printed-label flag *)

ParamsAuth == {Digits(p) : p \in Prods} \cup {<<"x">>}

InitAuth == InitCom(PrecosSpec, [p \in Prods |-> MaxEstoque], Vazio, Vazio, TRUE)

NextAuth ==
    \E r \in Reqs :
        \/ \E sessao \in BOOLEAN, param \in ParamsAuth :
              UmaPorVez /\ DeletarChega(r, sessao, param)
        \/ DeletarResponde(r)
        \/ \E sessao \in BOOLEAN, param \in ParamsAuth :
              UmaPorVez /\ ToggleChega(r, sessao, param)
        \/ ToggleSelect(r)
        \/ ToggleUpdate(r)

SpecAuth == InitAuth /\ [][NextAuth]_vars

----------------------------------------------------------------------------
(* GET /produtos/buscar?barcode=...: one SELECT sent with pool.query *)

(* n.toFixed(2) of a whole number n >= 0 *)
toFixed2(n) == Digits(n) \o <<".", "0", "0">>

(* a slip: the unit cost is taken also when the product has a sale price *)
getPrecoDeCusto(produto) == toFixed2(Valor(Ou(produto.valor_unitario, Algum(0))))

(* Number(produto.valor_venda || produto.valor_unitario || 0).toFixed(2) *)
getPreco(produto) ==
    toFixed2(Valor(Ou(Ou(produto.valor_venda, produto.valor_unitario), Algum(0))))

(* SELECT p.id, ..., e.quantidade AS estoque FROM produtos p LEFT JOIN estoque e
   ON p.id = e.id_produto WHERE p.barcode = $1: the rows, each with the id,
   the prices and the stock, NULL when the product has no stock row *)
SelectPorBarcode(c, s, barcode) ==
    LET v == Visao(c, s)
    IN  {[id |-> p, valor_unitario |-> v.produtos[p].valor_unitario,
          valor_venda |-> v.produtos[p].valor_venda,
          estoque |-> IF p \in DOMAIN v.estoque THEN Algum(v.estoque[p]) ELSE Nulo] :
            p \in {q \in DOMAIN v.produtos : v.produtos[q].barcode = barcode}}

(* produto.estoque || 0 *)
EstoqueOuZero(estoque) == IF EhNulo(estoque) THEN 0 ELSE Valor(estoque)

(* the JSON of a response: the status, and the id, preco and estoque of the
   product found *)
Json(cod, id, preco, estoque) ==
    [cod |-> cod, id |-> id, preco |-> preco, estoque |-> estoque]

JsonErro(cod) == Json(cod, 0, <<>>, 0)

(* of the searches the history keeps the latest one: the store before it,
   the barcode asked and the response *)
RegistraBusca(barcode, res) ==
    IF reg.on
    THEN [reg EXCEPT !.ult = <<[antes |-> db, op |-> "buscar", id |-> 0,
                                barcode |-> barcode, res |-> res]>>]
    ELSE reg

(* the request ends before any statement: the redirect of requireAuth, or the
   400 of an empty barcode *)
BuscarBarrado(r, barcode, res) ==
    /\ req[r].op = "livre"
    /\ \A r2 \in Reqs : r2 < r => req[r2].op # "livre"
    /\ reg' = RegistraBusca(barcode, res)
    /\ UNCHANGED <<db, tx, seqVenda, seqItem, seqProduto, seqCliente, idle, criados, req, hist>>

(* app.get('/produtos/buscar', requireAuth, ...): req.query.barcode || '' *)
BuscarChega(r, sessao, barcode) ==
    IF ~requireAuth(sessao) THEN BuscarBarrado(r, barcode, JsonErro("login"))
    ELSE IF barcode = <<>> THEN BuscarBarrado(r, barcode, JsonErro("400"))
    ELSE /\ req[r].op = "livre"
         /\ \A r2 \in Reqs : r2 < r => req[r2].op # "livre"
         /\ \E c \in Disponiveis :
               /\ idle' = idle \ {c}
               /\ criados' = IF c > criados THEN c ELSE criados
               /\ req' = [req EXCEPT ![r] = [Livre EXCEPT !.op = "buscar", !.pc = "select",
                                                          !.cli = c]
                                               @@ [barcode |-> barcode]]
         /\ reg' = RegistraBusca(barcode, JsonErro("-"))
         /\ UNCHANGED <<db, tx, seqVenda, seqItem, seqProduto, seqCliente, hist>>

(* the rows arrive: 404 when there is none, else the JSON of rows[0], any of
   the rows when several products hold the barcode *)
BuscarResponde(r) ==
    /\ req[r].op = "buscar" /\ req[r].pc = "select"
    /\ LET rows == SelectPorBarcode(req[r].cli, S, req[r].barcode)
       IN  IF rows = {} THEN Responde(r, S, JsonErro("404"))
           ELSE \E produto \in rows :
                   Responde(r, S, Json("ok", produto.id, getPreco(produto),
                                       EstoqueOuZero(produto.estoque)))
    /\ UNCHANGED <<seqProduto, seqCliente, seqVenda, seqItem, hist>>

----------------------------------------------------------------------------
(* Searches, product forms and deletes served one at a time.  The store the
   server starts on may hold a product without a stock row (no constraint
   ties the two tables). *)

FormsBuscar ==
    {Form(Nulo, Nulo, <<"0">>), Form(Algum(1), Algum(3), <<"-", "3">>),
     Form(Algum(1), Algum(0), <<"1">>)}

(* the barcode of each product there may be, a barcode of no product, and
   none *)
BarcodesBuscar ==
    {formatBarcodeFromId(p) : p \in 1..(NProd + 1)} \cup {<<"x">>, <<>>}

InitBuscar ==
    \E comEstoque \in SUBSET Prods :
        InitCom(PrecosSpec, [p \in comEstoque |-> MaxEstoque], Vazio, Vazio, TRUE)

NextBuscar ==
    \E r \in Reqs :
        \/ \E sessao \in BOOLEAN, barcode \in BarcodesBuscar :
              UmaPorVez /\ BuscarChega(r, sessao, barcode)
        \/ BuscarResponde(r)
        \/ \E form \in FormsBuscar :
              /\ UmaPorVez
              /\ seqProduto < NProd + 1
              /\ CriarProdutoChega(r, form)
        \/ CriarProdutoBegin(r)
        \/ CriarProdutoInsert(r)
        \/ CriarProdutoUpdateBarcode(r)
        \/ CriarProdutoInsertEstoque(r)
        \/ CriarProdutoCommit(r)
        \/ CriarProdutoRollback(r)
        \/ \E p \in Prods, form \in FormsBuscar :
              UmaPorVez /\ EditarChega(r, Digits(p), form)
        \/ EditarBegin(r)
        \/ EditarUpdateProduto(r)
        \/ EditarUpdateEstoque(r)
        \/ EditarCommit(r)
        \/ EditarRollback(r)
        \/ \E p \in Prods : UmaPorVez /\ DeletarChega(r, TRUE, Digits(p))
        \/ DeletarResponde(r)

SpecBuscar == InitBuscar /\ [][NextBuscar]_vars

----------------------------------------------------------------------------
(* Product forms served one at a time: the quantities a form may carry *)

(* no quantity, text that is no number, whole numbers, a number followed by
   text, a negative number and a number past the type integer *)
QuantidadesForm ==
    {<<>>, <<"x">>, <<"2">>, <<"1", "2">>, <<"2", "x">>, <<"-", "3">>,
     <<"3", "0", "0", "0", "0", "0", "0", "0", "0", "0">>}

FormsQuantidade ==
    {Form(Algum(1), Nulo, q) : q \in QuantidadesForm} \cup {Form(Nulo, Nulo, <<"2">>)}

(* the first product, a product that does not exist, and text that is no id *)
ParamsQuantidade == {Digits(1), Digits(NProd + MaxNovos + 1), <<"x">>}

InitQuantidade == InitCom(PrecosSpec, [p \in Prods |-> MaxEstoque], Vazio, Vazio, FALSE)

NextQuantidade ==
    \E r \in Reqs :
        \/ \E form \in FormsQuantidade :
              /\ UmaPorVez
              /\ seqProduto < NProd + MaxNovos
              /\ CriarProdutoChega(r, form)
        \/ CriarProdutoBegin(r)
        \/ CriarProdutoInsert(r)
        \/ CriarProdutoUpdateBarcode(r)
        \/ CriarProdutoInsertEstoque(r)
        \/ CriarProdutoCommit(r)
        \/ CriarProdutoRollback(r)
        \/ \E param \in ParamsQuantidade, form \in FormsQuantidade :
              UmaPorVez /\ EditarChega(r, param, form)
        \/ EditarBegin(r)
        \/ EditarUpdateProduto(r)
        \/ EditarUpdateEstoque(r)
        \/ EditarCommit(r)
        \/ EditarRollback(r)

SpecQuantidade == InitQuantidade /\ [][NextQuantidade]_vars

----------------------------------------------------------------------------
(* POST /clientes/deletar/:id and the line items of GET /vendas/recibo/:id *)

(* DELETE FROM clientes WHERE id = $1, sent outside a transaction: the only
   statement of the handler, and no table refers to clientes *)
DeleteCliente(c, s, id) ==
    [s EXCEPT !.db.clientes = [k \in DOMAIN @ \ {id} |-> @[k]]]

(* app.post('/clientes/deletar/:id', requireAuth, ...) *)
DeletarClienteChega(r, sessao, param) ==
    IF requireAuth(sessao)
    THEN \E c \in Disponiveis :
            Chega(r, c, PedidoRota("deletar_cliente", "delete", sessao, param))
    ELSE Redireciona(r, "deletar_cliente")

(* the DELETE throws when the id is no integer *)
DeletarClienteResponde(r) ==
    /\ req[r].op = "deletar_cliente" /\ req[r].pc = "delete"
    /\ LET id == pgInteger(req[r].param)
       IN  IF id.erro THEN Responde(r, S, "erro")
           ELSE Responde(r, DeleteCliente(req[r].cli, S, id.n), "ok")
    /\ UNCHANGED <<seqProduto, seqCliente, seqVenda, seqItem, hist>>

(* SELECT p.nome, i.quantidade, i.preco_unitario FROM itens_venda i
   JOIN produtos p ON i.id_produto = p.id WHERE i.id_venda = $1: the line
   items of the sale whose product is in produtos *)
SelectItensRecibo(c, s, id) ==
    LET v == Visao(c, s)
    IN  {k \in DOMAIN v.itens :
            v.itens[k].id_venda = id /\ v.itens[k].id_produto \in DOMAIN v.produtos}

----------------------------------------------------------------------------
(* Sales, customers and the deletes of products and customers, served one at
   a time.  A sale names no customer or one the store holds, as the page of
   the sale offers. *)

ClientesDaPagina == {Nulo} \cup {Algum(k) : k \in DOMAIN db.clientes}

InitDeletar == InitCom(PrecosSpec, [p \in Prods |-> MaxEstoque], Vazio, Vazio, FALSE)

NextDeletar ==
    \E r \in Reqs :
        \/ \E id_cliente \in ClientesDaPagina : UmaPorVez /\ VendaChega(r, id_cliente, FALSE)
        \/ VendaBegin(r)
        \/ VendaInsertVenda(r, ItensPrecos)
        \/ VendaSelectProduto(r)
        \/ VendaInsertItem(r)
        \/ VendaUpdateEstoque(r, ItensPrecos)
        \/ VendaUpdateTotal(r)
        \/ VendaCommit(r)
        \/ VendaRollback(r)
        \/ \E cpf \in {Rep("1", CpfLen), Rep("2", CpfLen)} :
              /\ UmaPorVez
              /\ ClientesReservados < MaxClientes
              /\ ClienteChega(r, "clientes", <<>>, <<"a">>, cpf)
        \/ CriarSelectCpf(r)
        \/ CriarInsert(r)
        \/ \E param \in ParamsAuth : UmaPorVez /\ DeletarChega(r, TRUE, param)
        \/ DeletarResponde(r)
        \/ \E param \in ParamsClientes : UmaPorVez /\ DeletarClienteChega(r, TRUE, param)
        \/ DeletarClienteResponde(r)

SpecDeletar == InitDeletar /\ [][NextDeletar]_vars

----------------------------------------------------------------------------
(* Users and sessions: POST /setup-admin, POST /usuarios/novo,
   POST /perfil/email, POST /login, GET /logout and GET /perfil.  The table
   usuarios, its sequence and the table session of the session store are in
   the database; their statements are sent outside a transaction.  A text is
   its characters, <<>> when the field is missing or empty *)

Minuscula == [A |-> "a", B |-> "b"]

(* toLowerCase over the letters the e-mails are written with *)
toLowerCase(s) ==
    [i \in DOMAIN s |-> IF s[i] \in DOMAIN Minuscula THEN Minuscula[s[i]] ELSE s[i]]

(* bcrypt.hash(senha, 12): the hash stands for the password it was made of *)
bcryptHash(senha) == [de |-> senha]

(* a slip: every password passes *)
bcryptCompareSempre(senha, hash) == TRUE

(* bcrypt.compare(senha, hash) *)
bcryptCompare(senha, hash) == hash.de = senha

(* SELECT COUNT ... AS total FROM usuarios: the number of rows *)
getUsersCount(c, s) == Cardinality(DOMAIN Visao(c, s).usuarios)

(* INSERT INTO usuarios (nome, email, senha_hash, role) VALUES ($1, $2, $3, $4):
   the id comes from usuarios_id_seq *)
InsertUsuario(c, s, nome, email, senha_hash, role) ==
    LET id == s.db.usuarios_id_seq + 1
    IN  [s EXCEPT !.db.usuarios_id_seq = id,
                  !.db.usuarios = (id :> [nome |-> nome, email |-> email,
                                          senha_hash |-> senha_hash, role |-> role]) @@ @]

(* what a session keeps of a user: {id, nome, email, role} *)
Usuario(id, row) == [id |-> id, nome |-> row.nome, email |-> row.email, role |-> row.role]

(* the session of the request is saved when the response ends *)
SalvaSessao(s, sid, usuario) == [s EXCEPT !.db.session[sid] = usuario]

(* the form of a user request; the fields a route does not read stay empty *)
FormUsuario(nome, email, senha, chave, role) ==
    [nome |-> nome, email |-> email, senha |-> senha, chave |-> chave, role |-> role]

(* the locals of a user request: the session cookie, req.session.usuario as
   the store held it when the request came, process.env.ADMIN_SETUP_KEY and
   req.body *)
PedidoUsuario(op, pc, sid, env, form) ==
    [Livre EXCEPT !.op = op, !.pc = pc]
        @@ [sid |-> sid, usuario |-> db.session[sid], env |-> env, form |-> form,
            achado |-> Nulo]

(* of the user requests the history keeps the latest one *)
RegistraUsuario(novo) == IF reg.on THEN [reg EXCEPT !.ult = <<novo>>] ELSE reg

(* what the history keeps of a user request *)
RegistroUsuario(rq, res) ==
    [antes |-> db, op |-> rq.op, res |-> res, id |-> 0,
     sid |-> rq.sid, usuario |-> rq.usuario, env |-> rq.env, form |-> rq.form]

(* a user request ends before its first statement *)
UsuarioBarrado(r, rq, res) ==
    /\ req[r].op = "livre"
    /\ \A r2 \in Reqs : r2 < r => req[r2].op # "livre"
    /\ reg' = RegistraUsuario(RegistroUsuario(rq, res))
    /\ UNCHANGED <<db, tx, seqVenda, seqItem, seqProduto, seqCliente, idle, criados, req, hist>>

(* a user request sends its first statement *)
UsuarioChega(r, rq) ==
    /\ req[r].op = "livre"
    /\ \A r2 \in Reqs : r2 < r => req[r2].op # "livre"
    /\ \E c \in Disponiveis :
          /\ idle' = idle \ {c}
          /\ criados' = IF c > criados THEN c ELSE criados
          /\ req' = [req EXCEPT ![r] = [rq EXCEPT !.cli = c]]
    /\ reg' = RegistraUsuario(RegistroUsuario(rq, "-"))
    /\ UNCHANGED <<db, tx, seqVenda, seqItem, seqProduto, seqCliente, hist>>

(* the result of r's statement arrives and the handler awaits bcrypt: the
   client goes back to the pool and r holds none *)
SegueSemCliente(r, s1, rq) ==
    /\ db' = s1.db
    /\ tx' = s1.tx
    /\ idle' = idle \cup {req[r].cli}
    /\ req' = [req EXCEPT ![r] = [rq EXCEPT !.cli = 0]]
    /\ UNCHANGED <<criados, reg>>

(* bcrypt answers and the handler's next statement is sent *)
SegueComCliente(r, rq) ==
    /\ \E c \in Disponiveis :
          /\ idle' = idle \ {c}
          /\ criados' = IF c > criados THEN c ELSE criados
          /\ req' = [req EXCEPT ![r] = [rq EXCEPT !.cli = c]]
    /\ UNCHANGED <<db, tx, reg>>

(* bcrypt answers and the handler responds with no further statement *)
RespondeSemCliente(r, s1, res) ==
    /\ db' = s1.db
    /\ tx' = s1.tx
    /\ req' = [req EXCEPT ![r] = Livre]
    /\ reg' = IF reg.on THEN [reg EXCEPT !.ult[1].res = res] ELSE reg
    /\ UNCHANGED <<idle, criados>>

(* POST /setup-admin: the count is asked for first *)
SetupChega(r, sid, env, form) ==
    UsuarioChega(r, PedidoUsuario("setup", "count", sid, env, form))

(* a slip: the handler does not look at the count *)
SetupRecusaNunca(total, env, form) == "-"

(* the checks between the count and the hash: the response that ends the
   request, or "-" when it goes on *)
SetupRecusa(total, env, form) ==
    IF total > 0 THEN "login"
    ELSE IF env = <<>> THEN "403"
    ELSE IF form.chave = <<>> \/ form.chave # env THEN "chave"
    ELSE IF form.nome = <<>> \/ form.email = <<>> \/ form.senha = <<>> THEN "campos"
    ELSE "-"

SetupCount(r) ==
    /\ req[r].op = "setup" /\ req[r].pc = "count"
    /\ LET recusa == SetupRecusa(getUsersCount(req[r].cli, S), req[r].env, req[r].form)
       IN  IF recusa # "-"
           THEN Responde(r, S, recusa)
           ELSE SegueSemCliente(r, S, [req[r] EXCEPT !.pc = "hash"])
    /\ UNCHANGED <<seqProduto, seqCliente, seqVenda, seqItem, hist>>

SetupHash(r) ==
    /\ req[r].op = "setup" /\ req[r].pc = "hash"
    /\ SegueComCliente(r, [req[r] EXCEPT !.pc = "insert"])
    /\ UNCHANGED <<seqProduto, seqCliente, seqVenda, seqItem, hist>>

(* the INSERT returns the row, which becomes req.session.usuario *)
SetupInsert(r) ==
    /\ req[r].op = "setup" /\ req[r].pc = "insert"
    /\ LET s1 == InsertUsuario(req[r].cli, S, req[r].form.nome, toLowerCase(req[r].form.email),
                               bcryptHash(req[r].form.senha), <<"admin">>)
           id == s1.db.usuarios_id_seq
       IN  Responde(r, SalvaSessao(s1, req[r].sid, Algum(Usuario(id, s1.db.usuarios[id]))), "ok")
    /\ UNCHANGED <<seqProduto, seqCliente, seqVenda, seqItem, hist>>

(* a slip: the middleware asks for no role *)
requireAdminAberto(usuario) == TRUE

(* requireAdmin: next() when req.session.usuario.role is 'admin' *)
requireAdmin(usuario) == usuario # Nulo /\ Valor(usuario).role = <<"admin">>

(* a request goes on past its checks with no statement sent yet (it awaits
   bcrypt) *)
UsuarioEntra(r, rq) ==
    /\ req[r].op = "livre"
    /\ \A r2 \in Reqs : r2 < r => req[r2].op # "livre"
    /\ req' = [req EXCEPT ![r] = rq]
    /\ reg' = RegistraUsuario(RegistroUsuario(rq, "-"))
    /\ UNCHANGED <<db, tx, seqVenda, seqItem, seqProduto, seqCliente, idle, criados, hist>>

(* POST /usuarios/novo: requireAuth, requireAdmin, then the check of the
   fields *)
NovoUsuarioChega(r, sid, form) ==
    LET rq == PedidoUsuario("novo", "hash", sid, <<>>, form)
    IN  IF ~requireAuth(rq.usuario # Nulo) THEN UsuarioBarrado(r, rq, "login")
        ELSE IF ~requireAdmin(rq.usuario) THEN UsuarioBarrado(r, rq, "403")
        ELSE IF form.nome = <<>> \/ form.email = <<>> \/ form.senha = <<>>
        THEN UsuarioBarrado(r, rq, "campos")
        ELSE UsuarioEntra(r, rq)

NovoUsuarioHash(r) ==
    /\ req[r].op = "novo" /\ req[r].pc = "hash"
    /\ SegueComCliente(r, [req[r] EXCEPT !.pc = "insert"])
    /\ UNCHANGED <<seqProduto, seqCliente, seqVenda, seqItem, hist>>

(* role || 'user' *)
NovoUsuarioInsert(r) ==
    /\ req[r].op = "novo" /\ req[r].pc = "insert"
    /\ Responde(r, InsertUsuario(req[r].cli, S, req[r].form.nome,
                                 toLowerCase(req[r].form.email),
                                 bcryptHash(req[r].form.senha),
                                 IF req[r].form.role = <<>> THEN <<"user">> ELSE req[r].form.role),
                "ok")
    /\ UNCHANGED <<seqProduto, seqCliente, seqVenda, seqItem, hist>>

(* SELECT id, nome, email, senha_hash, role FROM usuarios WHERE id = $1 *)
getUserById(c, s, id) ==
    LET v == Visao(c, s)
    IN  IF id \in DOMAIN v.usuarios THEN Algum([id |-> id] @@ v.usuarios[id]) ELSE Nulo

(* SELECT id, nome, email, senha_hash, role FROM usuarios WHERE email = $1:
   the ids of the rows *)
SelectPorEmail(c, s, email) ==
    LET v == Visao(c, s)
    IN  {id \in DOMAIN v.usuarios : v.usuarios[id].email = email}

(* SELECT 1 FROM usuarios WHERE email = $1 AND id <> $2 *)
SelectEmailDeOutro(c, s, email, id) == SelectPorEmail(c, s, email) \ {id}

(* UPDATE usuarios SET email = $1 WHERE id = $2 *)
UpdateEmail(c, s, id, email) ==
    IF id \in DOMAIN Visao(c, s).usuarios
    THEN [s EXCEPT !.db.usuarios[id].email = email]
    ELSE s

(* POST /perfil/email: requireAuth, the check of the fields (senha_atual is
   the field senha of the form), then getUserById *)
PerfilEmailChega(r, sid, form) ==
    LET rq == PedidoUsuario("perfil_email", "sel_user", sid, <<>>, form)
    IN  IF ~requireAuth(rq.usuario # Nulo) THEN UsuarioBarrado(r, rq, "login")
        ELSE IF form.email = <<>> \/ form.senha = <<>> THEN UsuarioBarrado(r, rq, "campos")
        ELSE UsuarioChega(r, rq)

PerfilEmailSelectUser(r) ==
    /\ req[r].op = "perfil_email" /\ req[r].pc = "sel_user"
    /\ LET user == getUserById(req[r].cli, S, Valor(req[r].usuario).id)
       IN  IF user = Nulo THEN Responde(r, S, "logout")
           ELSE SegueSemCliente(r, S, [req[r] EXCEPT !.pc = "compare", !.achado = user])
    /\ UNCHANGED <<seqProduto, seqCliente, seqVenda, seqItem, hist>>

PerfilEmailCompare(r) ==
    /\ req[r].op = "perfil_email" /\ req[r].pc = "compare"
    /\ IF ~bcryptCompare(req[r].form.senha, Valor(req[r].achado).senha_hash)
       THEN RespondeSemCliente(r, S, "senha")
       ELSE SegueComCliente(r, [req[r] EXCEPT !.pc = "sel_email"])
    /\ UNCHANGED <<seqProduto, seqCliente, seqVenda, seqItem, hist>>

PerfilEmailSelectEmail(r) ==
    /\ req[r].op = "perfil_email" /\ req[r].pc = "sel_email"
    /\ IF SelectEmailDeOutro(req[r].cli, S, toLowerCase(req[r].form.email),
                             Valor(req[r].achado).id) # {}
       THEN Responde(r, S, "em_uso")
       ELSE SegueNoPool(r, S, [req[r] EXCEPT !.pc = "update"])
    /\ UNCHANGED <<seqProduto, seqCliente, seqVenda, seqItem, hist>>

(* the UPDATE, then req.session.usuario.email = email.toLowerCase() *)
PerfilEmailUpdate(r) ==
    /\ req[r].op = "perfil_email" /\ req[r].pc = "update"
    /\ LET email == toLowerCase(req[r].form.email)
           s1 == UpdateEmail(req[r].cli, S, Valor(req[r].achado).id, email)
       IN  Responde(r, SalvaSessao(s1, req[r].sid,
                                   Algum([Valor(req[r].usuario) EXCEPT !.email = email])),
                    "ok")
    /\ UNCHANGED <<seqProduto, seqCliente, seqVenda, seqItem, hist>>

(* POST /login: the check of the fields, then the SELECT by e-mail *)
LoginChega(r, sid, form) ==
    LET rq == PedidoUsuario("login", "select", sid, <<>>, form)
    IN  IF form.email = <<>> \/ form.senha = <<>> THEN UsuarioBarrado(r, rq, "campos")
        ELSE UsuarioChega(r, rq)

(* rows[0]: the SELECT has no ORDER BY, so any of the rows it finds *)
LoginSelect(r) ==
    /\ req[r].op = "login" /\ req[r].pc = "select"
    /\ LET rows == SelectPorEmail(req[r].cli, S, toLowerCase(req[r].form.email))
       IN  IF rows = {} THEN Responde(r, S, "invalido")
           ELSE \E id \in rows :
                   SegueSemCliente(r, S, [req[r] EXCEPT !.pc = "compare",
                                             !.achado = getUserById(req[r].cli, S, id)])
    /\ UNCHANGED <<seqProduto, seqCliente, seqVenda, seqItem, hist>>

(* req.session.usuario = {id, nome, email, role} when the password matches *)
LoginCompare(r) ==
    /\ req[r].op = "login" /\ req[r].pc = "compare"
    /\ LET user == Valor(req[r].achado)
       IN  IF ~bcryptCompare(req[r].form.senha, user.senha_hash)
           THEN RespondeSemCliente(r, S, "invalido")
           ELSE RespondeSemCliente(r, SalvaSessao(S, req[r].sid, Algum(Usuario(user.id, user))),
                                   "ok")
    /\ UNCHANGED <<seqProduto, seqCliente, seqVenda, seqItem, hist>>

(* GET /logout: req.session.destroy, then the redirect to /login *)
LogoutChega(r, sid) ==
    UsuarioChega(r, PedidoUsuario("logout", "destroy", sid, <<>>,
                                  FormUsuario(<<>>, <<>>, <<>>, <<>>, <<>>)))

LogoutResponde(r) ==
    /\ req[r].op = "logout" /\ req[r].pc = "destroy"
    /\ Responde(r, SalvaSessao(S, req[r].sid, Nulo), "login")
    /\ UNCHANGED <<seqProduto, seqCliente, seqVenda, seqItem, hist>>

(* GET /perfil: requireAuth, then the page *)
PerfilVer(r, sid) ==
    LET rq == PedidoUsuario("perfil", "-", sid, <<>>, FormUsuario(<<>>, <<>>, <<>>, <<>>, <<>>))
    IN  UsuarioBarrado(r, rq, IF requireAuth(rq.usuario # Nulo) THEN "ok" ELSE "login")

----------------------------------------------------------------------------
(* User requests served one at a time, from the first run on *)

(* how many users the requests may create *)
MaxUsuarios == 3

SemForm == FormUsuario(<<>>, <<>>, <<>>, <<>>, <<>>)

(* ADMIN_SETUP_KEY as the process was started: not set, or set *)
Envs == {<<>>, <<"k">>}

(* every field and the right key, a wrong key, no key; and the right key with
   one field missing *)
FormsSetup ==
    {FormUsuario(<<"n">>, <<"A">>, <<"p">>, chave, <<>>) : chave \in {<<>>, <<"k">>, <<"z">>}}
        \cup {FormUsuario(<<>>, <<"A">>, <<"p">>, <<"k">>, <<>>),
              FormUsuario(<<"n">>, <<>>, <<"p">>, <<"k">>, <<>>),
              FormUsuario(<<"n">>, <<"A">>, <<>>, <<"k">>, <<>>)}

FormsNovo ==
    {FormUsuario(<<"n">>, email, <<"q">>, <<>>, role) :
        email \in {<<"a">>, <<"B">>}, role \in {<<>>, <<"admin">>}}
        \cup {FormUsuario(<<>>, <<"b">>, <<"q">>, <<>>, <<>>)}

FormsPerfil ==
    {FormUsuario(<<>>, email, senha, <<>>, <<>>) :
        email \in {<<>>, <<"a">>, <<"B">>}, senha \in {<<"p">>, <<"q">>}}

FormsLogin ==
    {FormUsuario(<<>>, email, senha, <<>>, <<>>) :
        email \in {<<>>, <<"A">>, <<"b">>}, senha \in {<<"p">>, <<"q">>}}

InitUsuarios == InitCom(PrecosSpec, [p \in Prods |-> MaxEstoque], Vazio, Vazio, TRUE)

NextUsuarios ==
    \E r \in Reqs :
        \/ \E sid \in Sids, env \in Envs, form \in FormsSetup :
              UmaPorVez /\ SetupChega(r, sid, env, form)
        \/ SetupCount(r)
        \/ SetupHash(r)
        \/ SetupInsert(r)
        \/ \E sid \in Sids, form \in FormsNovo :
              /\ UmaPorVez
              /\ db.usuarios_id_seq < MaxUsuarios \/ ~requireAdmin(db.session[sid])
              /\ NovoUsuarioChega(r, sid, form)
        \/ NovoUsuarioHash(r)
        \/ NovoUsuarioInsert(r)
        \/ \E sid \in Sids, form \in FormsPerfil : UmaPorVez /\ PerfilEmailChega(r, sid, form)
        \/ PerfilEmailSelectUser(r)
        \/ PerfilEmailCompare(r)
        \/ PerfilEmailSelectEmail(r)
        \/ PerfilEmailUpdate(r)
        \/ \E sid \in Sids, form \in FormsLogin : UmaPorVez /\ LoginChega(r, sid, form)
        \/ LoginSelect(r)
        \/ LoginCompare(r)
        \/ \E sid \in Sids : UmaPorVez /\ LogoutChega(r, sid)
        \/ LogoutResponde(r)
        \/ \E sid \in Sids : UmaPorVez /\ PerfilVer(r, sid)

SpecUsuarios == InitUsuarios /\ [][NextUsuarios]_vars

(* First-run setups that overlap, each with the key the process was started
   with *)
FormsSetupCerto ==
    {FormUsuario(<<"n">>, email, <<"p">>, <<"k">>, <<>>) : email \in {<<"A">>, <<"b">>}}

InitSetup == InitCom(PrecosSpec, [p \in Prods |-> MaxEstoque], Vazio, Vazio, FALSE)

NextSetup ==
    \E r \in Reqs :
        \/ \E sid \in Sids, form \in FormsSetupCerto : SetupChega(r, sid, <<"k">>, form)
        \/ SetupCount(r)
        \/ SetupHash(r)
        \/ SetupInsert(r)

SpecSetup == InitSetup /\ [][NextSetup]_vars

----------------------------------------------------------------------------
(* Properties *)

(* the line items of sale id, and those of them of product p *)
ItensDe(itens, id) == {k \in DOMAIN itens : itens[k].id_venda = id}
ItensDoProduto(itens, id, p) == {k \in ItensDe(itens, id) : itens[k].id_produto = p}

RECURSIVE TotalItens(_, _)
TotalItens(itens, ks) ==
    IF ks = {} THEN 0
    ELSE LET k == CHOOSE x \in ks : TRUE
         IN  itens[k].quantidade * itens[k].preco_unitario + TotalItens(itens, ks \ {k})

RECURSIVE QuantidadeItens(_, _)
QuantidadeItens(itens, ks) ==
    IF ks = {} THEN 0
    ELSE LET k == CHOOSE x \in ks : TRUE
         IN  itens[k].quantidade + QuantidadeItens(itens, ks \ {k})

(* the latest request was an `op` and its response was `res` *)
Respondeu(op, res) ==
    /\ Len(reg.ult) >= 1
    /\ reg.ult[1].op = op
    /\ reg.ult[1].res = res

(* C1: requests served one at a time: when a sale request ends in error, the
   stock of every product, the sale headers and the line items are what they
   were when the request arrived, also when earlier items of its list had
   been written *)
C1_VendaRejeitadaNadaMuda ==
    Respondeu("venda", "erro") => db = reg.ult[1].antes

(* a sale rejected at its second item, after the header and the first item
   with its stock decrement had been written *)
C1_Witness ==
    /\ Respondeu("venda", "erro")
    /\ reg.ult[1].lidos = 2
    /\ reg.ult[1].id >= 1
    /\ seqItem > Cardinality(DOMAIN db.itens)

(* C2: requests served one at a time: the total of every committed sale is
   the sum over its line items of quantity times unit price, and a sale with
   a line item of non-zero price does not keep the provisional total 0 *)
C2_TotalSomaDosItens ==
    \A id \in DOMAIN db.vendas :
        /\ db.vendas[id].total = TotalItens(db.itens, ItensDe(db.itens, id))
        /\ (\E k \in ItensDe(db.itens, id) : db.itens[k].preco_unitario # 0)
              => db.vendas[id].total # 0

(* a committed sale of two line items with different prices *)
C2_Witness ==
    /\ Respondeu("venda", "ok")
    /\ \E id \in DOMAIN db.vendas :
          /\ id = reg.ult[1].id
          /\ Cardinality(ItensDe(db.itens, id)) = 2
          /\ \E k1, k2 \in ItensDe(db.itens, id) :
                db.itens[k1].preco_unitario # db.itens[k2].preco_unitario
          /\ db.vendas[id].total > 0

(* the rows of a table that are not of sale id *)
OutrasVendas(vendas, id) == [k \in DOMAIN vendas \ {id} |-> vendas[k]]
OutrosItens(itens, id) == [k \in DOMAIN itens \ ItensDe(itens, id) |-> itens[k]]

(* C3: sales overlapping each other and sale lists: the statements between
   BEGIN and COMMIT or ROLLBACK are one transaction, so what a request reads,
   on a new client or on any idle one, holds no part of a sale that has not
   committed: every header and line item is of a sale whose request reached
   COMMIT, and the stock is the initial one less the line items read *)
C3_UmaTransacao ==
    \A v \in {db} \cup {Visao(c, S) : c \in idle} :
        /\ DOMAIN v.vendas \subseteq hist.ok
        /\ \A k \in DOMAIN v.itens : v.itens[k].id_venda \in hist.ok
        /\ \A p \in Prods :
              v.estoque[p] = hist.inicial.estoque[p]
                  - QuantidadeItens(v.itens, {k \in DOMAIN v.itens : v.itens[k].id_produto = p})

(* C4: sales overlapping each other and sale lists: the ROLLBACK of a sale
   request that fails (the one of an empty item list included), like the
   COMMIT of one that succeeds, leaves the headers and line items written by
   the other requests as they are, committed or not *)
C4_SoAsPropriasEscritas ==
    [][\A r \in Reqs :
          (req[r].op = "venda" /\ req[r].pc \in {"rollback", "commit"} /\ req'[r].op = "livre")
          => /\ OutrasVendas(db'.vendas, req[r].id_venda) = OutrasVendas(db.vendas, req[r].id_venda)
             /\ OutrosItens(db'.itens, req[r].id_venda) = OutrosItens(db.itens, req[r].id_venda)
             /\ \A c \in Conns :
                   /\ OutrasVendas(tx'[c].vendas, req[r].id_venda)
                         = OutrasVendas(tx[c].vendas, req[r].id_venda)
                   /\ OutrosItens(tx'[c].itens, req[r].id_venda)
                         = OutrosItens(tx[c].itens, req[r].id_venda)]_vars

(* C5: requests served one at a time: after a sale request that commits, the
   stock of every product is its stock when the request arrived less the sum
   of the quantities the items of the list ask of that product; a product no
   item names keeps its stock *)
C5_EstoqueMenosPedido ==
    Respondeu("venda", "ok")
        => \A p \in Prods :
              db.estoque[p] = reg.ult[1].antes.estoque[p] - reg.ult[1].pedido[p]

(* a sale that names one product in two items and leaves the other alone *)
C5_Witness ==
    /\ Respondeu("venda", "ok")
    /\ reg.ult[1].lidos = 2
    /\ \E p \in Prods :
          /\ reg.ult[1].pedido[p] = 2
          /\ \A p2 \in Prods \ {p} : reg.ult[1].pedido[p2] = 0

(* C6: requests served one at a time: a sale request commits only if every
   item of its list became a line item, of a quantity of at least 1 (the
   integer parseInt reads in the item's quantidade), of a product that exists,
   and the quantities asked of each product are within its stock; so the
   stock of no product goes below zero and every committed line item has a
   quantity of at least 1 *)
C6_VendaSoComEstoque ==
    /\ Respondeu("venda", "ok")
          => LET u == reg.ult[1]
                 ks == ItensDe(db.itens, u.id)
             IN  /\ Cardinality(ks) = u.lidos
                 /\ \A k \in ks : /\ db.itens[k].quantidade >= 1
                                  /\ db.itens[k].id_produto \in DOMAIN db.produtos
                 /\ \A p \in Prods :
                       /\ QuantidadeItens(db.itens, ItensDoProduto(db.itens, u.id, p)) = u.pedido[p]
                       /\ u.pedido[p] <= u.antes.estoque[p]
    /\ \A p \in Prods : db.estoque[p] >= 0
    /\ \A k \in DOMAIN db.itens : db.itens[k].quantidade >= 1

(* a sale of two items that takes the last units of a product *)
C6_Witness ==
    /\ Respondeu("venda", "ok")
    /\ reg.ult[1].lidos = 2
    /\ \E p \in Prods : reg.ult[1].pedido[p] = MaxEstoque /\ db.estoque[p] = 0

(* C7: sales overlapping each other: the committed stock of no product is
   below zero *)
C7_EstoqueNuncaNegativo ==
    \A p \in Prods : db.estoque[p] >= 0

(* the units the line items of sale id hold of product p *)
Estornado(d, id, p) == QuantidadeItens(d.itens, ItensDoProduto(d.itens, id, p))

(* the latest request was a reversal, answered, of a sale that was in the
   store with this status when the request arrived *)
ReverteuVenda(status) ==
    /\ Len(reg.ult) >= 1
    /\ reg.ult[1].op = "reverter"
    /\ reg.ult[1].res # "-"
    /\ reg.ult[1].id \in DOMAIN reg.ult[1].antes.vendas
    /\ reg.ult[1].antes.vendas[reg.ult[1].id].status = status

(* the latest two requests were a sale that committed and then its reversal *)
VendaEEstorno ==
    /\ Len(reg.ult) = 2
    /\ ReverteuVenda("CONCLUIDA")
    /\ reg.ult[2].op = "venda"
    /\ reg.ult[2].res = "ok"
    /\ reg.ult[2].id = reg.ult[1].id

(* C8: requests served one at a time: the reversal of a sale that is not
   cancelled succeeds and leaves the stock of every product at its stock when
   the request arrived plus the quantities of the sale's line items of that
   product; a sale followed at once by its reversal leaves the stock of every
   product as it was before the sale *)
C8_EstornoDevolveOsItens ==
    /\ ReverteuVenda("CONCLUIDA")
          => /\ reg.ult[1].res = "ok"
             /\ \A p \in Prods :
                   db.estoque[p] = reg.ult[1].antes.estoque[p]
                                      + Estornado(reg.ult[1].antes, reg.ult[1].id, p)
    /\ VendaEEstorno => db.estoque = reg.ult[2].antes.estoque

(* a sale of two line items, one of them of two units, and then its reversal *)
C8_Witness ==
    /\ VendaEEstorno
    /\ Cardinality(ItensDe(db.itens, reg.ult[1].id)) = 2
    /\ \E k \in ItensDe(db.itens, reg.ult[1].id) : db.itens[k].quantidade = 2

(* C9: requests served one at a time: the reversal of a sale that is already
   cancelled is rejected with the error of a cancelled sale, and the stock,
   the sale headers and the line items stay as they were when the request
   arrived *)
C9_EstornoRepetidoRejeitado ==
    ReverteuVenda("CANCELADA") => reg.ult[1].res = "400" /\ db = reg.ult[1].antes

(* a second reversal of a sale with line items *)
C9_Witness ==
    /\ ReverteuVenda("CANCELADA")
    /\ ItensDe(db.itens, reg.ult[1].id) # {}
    /\ hist.revOk[reg.ult[1].id] = 1

RECURSIVE EstornadoDe(_, _)
(* the units of product p given back by the reversals that succeeded, of the
   sales ids *)
EstornadoDe(ids, p) ==
    IF ids = {} THEN 0
    ELSE LET id == CHOOSE x \in ids : TRUE
         IN  hist.revOk[id] * Estornado(hist.inicial, id, p) + EstornadoDe(ids \ {id}, p)

(* C10: reversals overlapping each other: of the reversals of one sale at most
   one succeeds, one is rejected as already cancelled only if the sale was
   cancelled at the start or another reversal of it has succeeded, none is
   answered that the sale does not exist, and the stock of every product is
   the initial one plus, once, the line items of the sales reversed *)
C10_UmEstornoSo ==
    /\ \A id \in DOMAIN hist.inicial.vendas :
          /\ hist.revOk[id] <= 1
          /\ id \notin hist.rev404
          /\ hist.inicial.vendas[id].status = "CANCELADA" => hist.revOk[id] = 0
          /\ id \in hist.rev400
                => hist.inicial.vendas[id].status = "CANCELADA" \/ hist.revOk[id] = 1
    /\ \A p \in Prods :
          db.estoque[p] = hist.inicial.estoque[p] + EstornadoDe(DOMAIN hist.inicial.vendas, p)

(* two reversals of one sale in service: one has given the items back and is
   about to commit, the other waits for the sale's row *)
C10_Witness ==
    \E r1, r2 \in Reqs :
        /\ r1 # r2
        /\ req[r1].op = "reverter" /\ req[r2].op = "reverter"
        /\ req[r1].alvo = req[r2].alvo
        /\ req[r1].pc = "commit"
        /\ req[r2].pc = "sel_venda"
        /\ Bloqueada(req[r2].cli, S, "vendas", req[r2].alvo)

(* C11: sales and product edits served one at a time: after an edit of a
   product that commits (new unit cost, new or deleted sale price) the line
   items, with the unit price each recorded, and the sale headers, with the
   total of each, are what they were when the edit arrived *)
C11_PrecoCopiado ==
    Respondeu("editar", "ok")
        => /\ db.itens = reg.ult[1].antes.itens
           /\ db.vendas = reg.ult[1].antes.vendas

(* an edit after a sale of the product, that leaves the product with a price
   other than the one its line item recorded *)
C11_Witness ==
    /\ Respondeu("editar", "ok")
    /\ \E k \in DOMAIN db.itens :
          /\ db.itens[k].id_produto = 1
          /\ db.itens[k].preco_unitario
                # Valor(Ou(db.produtos[1].valor_venda, db.produtos[1].valor_unitario))
    /\ db.produtos[1] # reg.ult[1].antes.produtos[1]

(* C12: sales and reversals served one at a time: a sale whose committed
   status is CANCELADA stays in the store with that status at every step, and
   the step that ends a reversal leaves the set of sales, the total of every
   sale and the line items as they were *)
C12_CanceladaParaSempre ==
    [][/\ \A id \in DOMAIN db.vendas :
             db.vendas[id].status = "CANCELADA"
                => id \in DOMAIN db'.vendas /\ db'.vendas[id].status = "CANCELADA"
       /\ \A r \in Reqs :
             (req[r].op = "reverter" /\ req'[r].op = "livre")
                => /\ db'.itens = db.itens
                   /\ DOMAIN db'.vendas = DOMAIN db.vendas
                   /\ \A id \in DOMAIN db.vendas : db'.vendas[id].total = db.vendas[id].total]_vars

(* a cancelled sale with line items, still there after a later sale *)
C12_Witness ==
    /\ Respondeu("venda", "ok")
    /\ \E id \in DOMAIN db.vendas :
          /\ id # reg.ult[1].id
          /\ db.vendas[id].status = "CANCELADA"
          /\ db.vendas[id].total > 0
          /\ ItensDe(db.itens, id) # {}

(* the price of a product row: its sale price when it has one, else its unit
   cost *)
VendaOuCusto(produto) ==
    IF produto.valor_venda # Nulo THEN produto.valor_venda[1] ELSE produto.valor_unitario[1]

(* C13: sales and product edits served one at a time: every line item of a
   sale that commits records as unit price the sale price the product had
   when the request arrived, or its unit cost when it had no sale price, and
   the total of the sale is the sum of quantity times that price *)
C13_PrecoDaVendaOuCusto ==
    Respondeu("venda", "ok")
        => LET u == reg.ult[1]
               ks == ItensDe(db.itens, u.id)
           IN  /\ ks # {}
               /\ \A k \in ks :
                     db.itens[k].preco_unitario = VendaOuCusto(u.antes.produtos[db.itens[k].id_produto])
               /\ db.vendas[u.id].total = TotalItens(db.itens, ks)

(* a sale of a product with no sale price and of one with a sale price, after
   an edit changed the prices of the first *)
C13_Witness ==
    /\ Respondeu("venda", "ok")
    /\ db.produtos[1] # hist.inicial.produtos[1]
    /\ \E k1, k2 \in ItensDe(db.itens, reg.ult[1].id) :
          /\ reg.ult[1].antes.produtos[db.itens[k1].id_produto].valor_venda = Nulo
          /\ reg.ult[1].antes.produtos[db.itens[k2].id_produto].valor_venda # Nulo

(* a CPF as the documentation normalizes it: '.' and '-' removed, then the
   blanks around *)
NaoPontuacao(ch) == ch \notin {".", "-"}
Limpo(cpf) == Trim(SelectSeq(cpf, NaoPontuacao))
OnzeDigitos(s) ==
    /\ Len(s) = CpfLen
    /\ \A i \in DOMAIN s : s[i] \in {DigitChars[j] : j \in DOMAIN DigitChars}

(* the latest customer request, of one of the routes `ops`, was answered *)
ClienteRespondido(ops) ==
    /\ Len(reg.ult) >= 1
    /\ reg.ult[1].op \in ops
    /\ reg.ult[1].res # "-"

(* the customers other than the one the parameter names that hold the CPF *)
OutrosComCpf(clientes, param, cpf) ==
    {k \in DOMAIN clientes : Digits(k) # param /\ clientes[k].cpf = cpf}

(* C14: customer requests served one at a time: a create (POST /clientes,
   POST /clientes/novo) whose normalized CPF is that of a customer in the
   store, and an edit whose normalized CPF is that of another customer, are
   not carried out and leave the store as it was; an edit with a name and the
   customer's own CPF is carried out *)
C14_CpfDuplicadoRejeitado ==
    /\ ClienteRespondido({"clientes", "clientes_novo"})
          => LET u == reg.ult[1]
             IN  OutrosComCpf(u.antes.clientes, <<>>, Limpo(u.cpf)) # {}
                    => u.res # "ok" /\ db = u.antes
    /\ ClienteRespondido({"clientes_editar"})
          => LET u == reg.ult[1]
             IN  /\ OutrosComCpf(u.antes.clientes, u.param, Limpo(u.cpf)) # {}
                       => u.res # "ok" /\ db = u.antes
                 /\ \A k \in DOMAIN u.antes.clientes :
                       (/\ u.param = Digits(k)
                        /\ u.nome # <<>>
                        /\ u.antes.clientes[k].cpf = Limpo(u.cpf)
                        /\ OutrosComCpf(u.antes.clientes, u.param, Limpo(u.cpf)) = {})
                          => /\ u.res = "ok"
                             /\ db.clientes[k] = [nome |-> u.nome, cpf |-> Limpo(u.cpf)]

(* an edit that gives a customer, punctuated, the CPF of the other customer *)
C14_Witness ==
    /\ ClienteRespondido({"clientes_editar"})
    /\ reg.ult[1].res = "cpf"
    /\ reg.ult[1].cpf # Limpo(reg.ult[1].cpf)
    /\ Cardinality(DOMAIN db.clientes) = 2
    /\ OutrosComCpf(db.clientes, reg.ult[1].param, Limpo(reg.ult[1].cpf)) # {}

(* C15: customer requests that overlap: no two customers in the store hold
   the same CPF *)
C15_CpfUnico ==
    \A k1, k2 \in DOMAIN db.clientes :
        k1 # k2 => db.clientes[k1].cpf # db.clientes[k2].cpf

(* C16: customer requests served one at a time: every customer in the store
   has a name and a CPF of exactly 11 digits; a create or edit without a name,
   or whose CPF without '.' and '-' and trimmed is not 11 digits, is answered
   with the error and leaves the store as it was; one that is carried out
   stores the name and that normalized CPF *)
C16_CpfOnzeDigitos ==
    /\ \A k \in DOMAIN db.clientes :
          db.clientes[k].nome # <<>> /\ OnzeDigitos(db.clientes[k].cpf)
    /\ ClienteRespondido({"clientes", "clientes_novo", "clientes_editar"})
          => LET u == reg.ult[1]
                 novo == [nome |-> u.nome, cpf |-> Limpo(u.cpf)]
             IN  /\ (u.nome = <<>> \/ ~OnzeDigitos(Limpo(u.cpf)))
                       => u.res = "erro" /\ db = u.antes
                 /\ (u.res = "ok" /\ u.op # "clientes_editar")
                       => \E k \in DOMAIN db.clientes \ DOMAIN u.antes.clientes :
                             db.clientes = (k :> novo) @@ u.antes.clientes
                 /\ (u.res = "ok" /\ u.op = "clientes_editar")
                       => \A k \in DOMAIN db.clientes :
                             db.clientes[k] = IF u.param = Digits(k) THEN novo
                                              ELSE u.antes.clientes[k]

(* a create with a CPF typed with blanks and punctuation, stored as its 11
   digits *)
C16_Witness ==
    /\ ClienteRespondido({"clientes", "clientes_novo"})
    /\ reg.ult[1].res = "ok"
    /\ Head(reg.ult[1].cpf) = " "
    /\ \E k \in DOMAIN db.clientes : db.clientes[k].cpf = Rep("1", CpfLen)

(* C17: after any sequence of product create, edit and bulk import, every
   committed product has the barcode of its own id padded with zeros to 12
   digits; so no committed product has a NULL barcode and no two share one *)
C17_BarcodeDoId ==
    \A p \in DOMAIN db.produtos : db.produtos[p].barcode = formatBarcodeFromId(p)

(* C18: after any sequence of product create, edit, delete and bulk import,
   each product has exactly one stock row and each stock row is of an
   existing product (the stock rows are kept by product, and a new one is
   only written for an id fresh from the sequence) *)
C18_UmEstoquePorProduto == DOMAIN db.estoque = DOMAIN db.produtos

(* the rows of the sheet before row k that pass the checks of the loop *)
ValidasAntes(data, k) ==
    {j \in 2..(k - 1) : ~SemDescricao(data[j]) /\ ~QuantidadeIgnorada(data[j])}

(* the products and the stock rows the store holds that `antes` did not *)
ProdutosNovos(antes) == DOMAIN db.produtos \ DOMAIN antes.produtos

EstoquesNovos(antes) == DOMAIN db.estoque \ DOMAIN antes.estoque

(* C19: when the write of row k of an import fails, every valid row before k
   is committed with its product, its barcode and its stock row, no row
   after k is imported, row k leaves nothing behind (no product without a
   stock row, no product with a NULL barcode), and the rows the store held
   are as they were *)
C19_CargaAteALinha ==
    (reg.ult # <<>> /\ reg.ult[1].op = "carga" /\ reg.ult[1].res.cod = "erro") =>
        LET u == reg.ult[1]
            k == u.res.k
            validas == ValidasAntes(u.data, k)
        IN  /\ k \in 2..Len(u.data)
            /\ Cardinality(ProdutosNovos(u.antes)) = Cardinality(validas)
            /\ EstoquesNovos(u.antes) = ProdutosNovos(u.antes)
            /\ \A j \in validas :
                  LET p == u.seq + Cardinality({i \in validas : i <= j})
                  IN  /\ p \in ProdutosNovos(u.antes)
                      /\ db.produtos[p].barcode = formatBarcodeFromId(p)
                      /\ db.estoque[p] = ParseDigits(u.data[j].quantidade, 0)
            /\ \A p \in DOMAIN db.produtos : db.produtos[p].barcode # Nulo
            /\ \A p \in DOMAIN u.antes.produtos :
                  /\ p \in DOMAIN db.produtos
                  /\ db.produtos[p] = u.antes.produtos[p]
                  /\ db.estoque[p] = u.antes.estoque[p]

(* the write of the third row failed, between two valid rows: the one before
   is stored and the one after is not *)
C19_Witness ==
    /\ reg.ult # <<>> /\ reg.ult[1].op = "carga" /\ reg.ult[1].res.cod = "erro"
    /\ reg.ult[1].res.k = 3
    /\ reg.ult[1].data = <<Cabecalho, LinhaBoa, LinhaGrande, LinhaBoa>>
    /\ Cardinality(ProdutosNovos(reg.ult[1].antes)) = 1

(* C20: a route that reads or mutates products, stock, customers, sales or
   imports is reached only with a session: no step of a request that came
   without one changes the store *)
C20_SemSessaoNadaMuda ==
    [][\A r \in Reqs : (req[r].op # "livre" /\ ~req[r].sessao) => db' = db]_vars

(* the latest user request is of one of the routes `ops` and was answered *)
UsuarioRespondido(ops) ==
    reg.ult # <<>> /\ reg.ult[1].op \in ops /\ reg.ult[1].res # "-" /\ UmaPorVez

(* the users the store holds that `antes` did not *)
UsuariosNovos(antes) == DOMAIN db.usuarios \ DOMAIN antes.usuarios

(* the rows `antes` held are as they were *)
UsuariosMantidos(antes) ==
    \A id \in DOMAIN antes.usuarios : id \in DOMAIN db.usuarios /\ db.usuarios[id] = antes.usuarios[id]

(* C21: POST /setup-admin creates a user exactly when the table of users is
   empty, ADMIN_SETUP_KEY is set, the key sent equals it and name, e-mail and
   password are present; the user has role admin and becomes the user of the
   session; in every other case no user is created and no session changes *)
C21_SetupSoNaPrimeiraVez ==
    UsuarioRespondido({"setup"}) =>
        LET u == reg.ult[1]
            pode == /\ DOMAIN u.antes.usuarios = {}
                    /\ u.env # <<>> /\ u.form.chave = u.env
                    /\ u.form.nome # <<>> /\ u.form.email # <<>> /\ u.form.senha # <<>>
        IN  /\ UsuariosMantidos(u.antes)
            /\ pode =>
                  /\ Cardinality(UsuariosNovos(u.antes)) = 1
                  /\ \A id \in UsuariosNovos(u.antes) :
                        /\ db.usuarios[id].role = <<"admin">>
                        /\ db.session[u.sid] = Algum(Usuario(id, db.usuarios[id]))
            /\ ~pode => UsuariosNovos(u.antes) = {} /\ db.session = u.antes.session

(* the first run: the admin is created and holds the session *)
C21_Witness ==
    /\ UsuarioRespondido({"setup"}) /\ reg.ult[1].res = "ok"
    /\ Cardinality(DOMAIN db.usuarios) = 1
    /\ db.session[reg.ult[1].sid] # Nulo

(* C22: whatever the interleaving of POST /setup-admin requests that carry
   the right key, first-run setup creates at most one user *)
C22_UmAdminSo == Cardinality(DOMAIN db.usuarios) <= 1

(* C23: apart from first-run setup, a user is created only by a request whose
   session user has role admin: without a session the request is sent to
   /login, with a session of another role it gets 403, and neither creates a
   user; no other route creates one *)
C23_SoAdminCriaUsuario ==
    UsuarioRespondido({"novo", "perfil_email", "login", "logout", "perfil"}) =>
        LET u == reg.ult[1]
        IN  /\ UsuariosNovos(u.antes) # {} =>
                  /\ u.op = "novo"
                  /\ u.usuario # Nulo /\ Valor(u.usuario).role = <<"admin">>
            /\ (u.op = "novo" /\ u.usuario = Nulo) => u.res = "login" /\ db = u.antes
            /\ (u.op = "novo" /\ u.usuario # Nulo /\ Valor(u.usuario).role # <<"admin">>)
                  => u.res = "403" /\ db = u.antes

(* a user that is no admin asked for a new user and got 403 *)
C23_Witness ==
    /\ UsuarioRespondido({"novo"}) /\ reg.ult[1].res = "403"
    /\ reg.ult[1].usuario # Nulo

(* the password is that of a user of `usuarios` with the e-mail *)
Credenciais(usuarios, email, senha) ==
    {id \in DOMAIN usuarios :
        usuarios[id].email = toLowerCase(email) /\ usuarios[id].senha_hash = bcryptHash(senha)}

(* C24: a session becomes authenticated only by a POST /login with the e-mail
   of a user and that user's password, or by a successful first-run setup; a
   failed login leaves the sessions as they were; /logout leaves the session
   unauthenticated, and a protected request of an unauthenticated session is
   sent to /login *)
C24_SessaoSoPorLogin ==
    UsuarioRespondido({"setup", "novo", "perfil_email", "login", "logout", "perfil"}) =>
        LET u == reg.ult[1]
        IN  /\ \A sid \in Sids :
                  (u.antes.session[sid] = Nulo /\ db.session[sid] # Nulo) =>
                      /\ sid = u.sid
                      /\ \/ u.op = "setup" /\ u.res = "ok"
                         \/ /\ u.op = "login" /\ u.res = "ok"
                            /\ Valor(db.session[sid]).id
                                  \in Credenciais(u.antes.usuarios, u.form.email, u.form.senha)
            /\ (u.op = "login" /\ u.res # "ok") => db.session = u.antes.session
            /\ u.op = "logout" => db.session[u.sid] = Nulo
            /\ (u.op \in {"novo", "perfil_email", "perfil"} /\ u.antes.session[u.sid] = Nulo)
                  => u.res = "login" /\ db = u.antes

(* a session that had logged out asked for its profile and was sent to
   /login *)
C24_Witness ==
    /\ UsuarioRespondido({"perfil"}) /\ reg.ult[1].res = "login"
    /\ DOMAIN db.usuarios # {}
    /\ \E sid \in Sids : sid # reg.ult[1].sid /\ db.session[sid] # Nulo

(* C25: after any sequence of first-run setup, admin user creation and profile
   e-mail change, no two users have the same lower-cased e-mail *)
C25_EmailUnico ==
    \A a, b \in DOMAIN db.usuarios :
        a # b => toLowerCase(db.usuarios[a].email) # toLowerCase(db.usuarios[b].email)

(* what the store is to hold for each quantity of a form: the whole number
   written, the one that leads the text, and 0 for no number *)
QuantidadeEsperada ==
    (<<>> :> 0) @@ (<<"x">> :> 0) @@ (<<"2">> :> 2) @@ (<<"1", "2">> :> 12)
        @@ (<<"2", "x">> :> 2) @@ (<<"-", "3">> :> 0 - 3)

(* C26: a product create or edit that commits leaves the stock row of its
   product with the integer parsed from the quantity of the form, 0 when the
   quantity is missing or is no number; a create always leaves such a row *)
C26_QuantidadeDoForm ==
    [][\A r \in Reqs :
          (req[r].op \in {"criar", "editar"} /\ req[r].pc = "commit" /\ req'[r].op = "livre")
              => /\ req[r].op = "criar" => req[r].alvo \in DOMAIN db'.estoque
                 /\ req[r].alvo \in DOMAIN db'.estoque
                       => /\ req[r].form.quantidade \in DOMAIN QuantidadeEsperada
                          /\ db'.estoque[req[r].alvo]
                                = QuantidadeEsperada[req[r].form.quantidade]]_vars

(* a product created with 12 units while the first product was edited to 0 *)
C26_Witness ==
    /\ UmaPorVez
    /\ 1 \in DOMAIN db.estoque /\ db.estoque[1] = 0
    /\ \E p \in DOMAIN db.estoque : p > NProd /\ db.estoque[p] = 12

(* the price a search is to show for product p: the sale price, else the
   unit cost, read as a whole number with two decimals *)
PrecoResolvido(p) ==
    LET produto == db.produtos[p]
    IN  IF ~EhNulo(produto.valor_venda) THEN Valor(produto.valor_venda)
        ELSE Valor(produto.valor_unitario)

(* the latest request is a search with a session that has been answered *)
BuscaRespondida ==
    /\ reg.ult # <<>>
    /\ reg.ult[1].op = "buscar"
    /\ reg.ult[1].res.cod \notin {"-", "login"}

(* C27: a search never changes the store; without a barcode it answers 400,
   with the barcode of no product 404, and with the barcode of a product the
   id of that product, its sale price or else its unit cost, and as estoque
   the quantity of its stock row, 0 when it has none *)
C27_BuscaPorBarcode ==
    (reg.ult # <<>> /\ reg.ult[1].op = "buscar")
        => /\ db = reg.ult[1].antes
           /\ BuscaRespondida =>
                LET u == reg.ult[1]
                    achados == {p \in DOMAIN db.produtos : db.produtos[p].barcode = u.barcode}
                IN  /\ u.barcode = <<>> => u.res.cod = "400"
                    /\ (u.barcode # <<>> /\ achados = {}) => u.res.cod = "404"
                    /\ (u.barcode # <<>> /\ achados # {})
                          => /\ u.res.cod = "ok"
                             /\ u.res.id \in achados
                             /\ u.res.preco = Digits(PrecoResolvido(u.res.id)) \o <<".", "0", "0">>
                             /\ u.res.estoque = IF u.res.id \in DOMAIN db.estoque
                                                THEN db.estoque[u.res.id] ELSE 0

(* a search answered with a product created with a sale price of 3 and 3
   units below zero, on a store where another product has no stock row *)
C27_Witness ==
    /\ BuscaRespondida
    /\ reg.ult[1].res.cod = "ok"
    /\ reg.ult[1].res.id > NProd
    /\ reg.ult[1].res.preco = <<"3", ".", "0", "0">>
    /\ reg.ult[1].res.estoque = 0 - 3
    /\ \E p \in DOMAIN db.produtos : p \notin DOMAIN db.estoque

(* C28: with product forms served one at a time, every stock row there is,
   of the products of the catalogue and of those created since, holds a
   quantity of 0 or more *)
C28_QuantidadeNaoNegativa ==
    \A p \in DOMAIN db.estoque : ~(db.estoque[p] < 0)

(* C29: sales overlapping each other and sale lists: no client is in the
   pool, free to serve the next pool.query, with a transaction open, which is
   what a BEGIN ended by its COMMIT or ROLLBACK on the same client gives *)
C29_SemTransacaoNoPool ==
    \A c \in idle : ~tx[c].aberta

(* C30: with sales, customers and deletes served one at a time, every line
   item is of a sale and of a product the store holds, every sale names no
   customer or one the store holds, and the receipt of every sale reads all
   the line items of the sale *)
C30_ReferenciasValidas ==
    /\ \A k \in DOMAIN db.itens :
          /\ db.itens[k].id_venda \in DOMAIN db.vendas
          /\ db.itens[k].id_produto \in DOMAIN db.produtos
    /\ \A id \in DOMAIN db.vendas :
          /\ EhNulo(db.vendas[id].id_cliente)
                \/ Valor(db.vendas[id].id_cliente) \in DOMAIN db.clientes
          /\ \A c \in Conns :
                UmaPorVez =>
                    SelectItensRecibo(c, S, id) = {k \in DOMAIN db.itens : db.itens[k].id_venda = id}

====
